---- MODULE Spec2Model ----
(***************************************************************************)
(* Model of the chess core of mrzzzrm/mess: the slot-store Board of        *)
(* src/board.rs (piece_list + piece_free_list + square_list), the Move     *)
(* descriptor of src/move_.rs, the generator of src/move_generation.rs,    *)
(* MoveUnmove of src/lib.rs and the evaluators of src/evaluation.rs.       *)
(*                                                                         *)
(* Rust values are encoded as follows.                                     *)
(*   Option<T>      : <<>> for None, <<v>> for Some(v)                     *)
(*   Square         : <<x, y>> (file, rank), off-board values allowed      *)
(*   Piece          : [kind, color]                                        *)
(*   PieceOnBoard   : [piece, square]                                      *)
(*   a panicking call: a result record whose ok field is FALSE             *)
(***************************************************************************)
EXTENDS Integers, Sequences, FiniteSets, TLC

\* ------------------------------------------------------------------ bounds

\* Plies explored from a small starting board: the moves applied so far plus
\* the max_depth handed to an evaluator never exceed it.
MaxPly == 3
\* The same horizon for runs that start from Board::create_populated().
MaxPlyPopulated == 1
\* The same horizon for runs that start from a board on which kings and rooks
\* of both colors move freely.
MaxPlyPieces == 1

\* ------------------------------------------------------- program constants

\* board.piece_list = vec![None; 32]
PieceSlots == 32
\* board.square_list = vec![None; 64]
SquareCount == 64
\* Square::is_on_board: 0 <= x < 8 and 0 <= y < 8
BoardSize == 8
\* A finite stand-in for Float::max_value(); every evaluation is a sum of
\* at most 32 piece values of magnitude <= 200, far inside this window.
FloatMax == 1000000

\* ------------------------------------------------------------------ Option

None == <<>>
Some(v) == <<v>>
IsSome(o) == o /= <<>>
IsNone(o) == o = <<>>
Unwrap(o) == o[1]

Range(seq) == {seq[i] : i \in 1..Len(seq)}

\* -------------------------------------------------------------------- core

White == "White"
Black == "Black"
Colors == {White, Black}

KingSide == "KingSide"
QueenSide == "QueenSide"

Pawn == "Pawn"
Knight == "Knight"
Bishop == "Bishop"
Rook == "Rook"
Queen == "Queen"
King == "King"
Dummy == "Dummy"

at(x, y) == <<x, y>>
file(square) == square[1]
rank(square) == square[2]

is_on_board(square) ==
    /\ square[1] >= 0 /\ square[1] < BoardSize
    /\ square[2] >= 0 /\ square[2] < BoardSize

delta(square, x, y) == <<square[1] + x, square[2] + y>>

\* Square::index is called by src/board.rs but defined nowhere in src/; the
\* 64-entry square -> slot map of the spec is modelled row by row.
index(square) == square[2] * BoardSize + square[1]

switch(color) == IF color = White THEN Black ELSE White
evaluation_sign(color) == IF color = White THEN 1 ELSE -1
promotion_rank(color) == IF color = White THEN 7 ELSE 0
back_rank(color) == IF color = White THEN 0 ELSE 7
forward(color) == IF color = White THEN 1 ELSE -1
home_rank(color) == IF color = White THEN 1 ELSE 6

kind_value(kind) ==
    CASE kind = Pawn -> 1
      [] kind = Knight -> 3
      [] kind = Bishop -> 3
      [] kind = Rook -> 5
      [] kind = Queen -> 9
      [] kind = King -> 200
      [] kind = Dummy -> 0

colored(kind, color) == [kind |-> kind, color |-> color]
piece_on(piece, x, y) == [piece |-> piece, square |-> <<x, y>>]
piece_value(piece) == kind_value(piece.kind) * evaluation_sign(piece.color)

ColorCastleRights_all == [king_side |-> TRUE, queen_side |-> TRUE]
ColorCastleRights_none == [king_side |-> FALSE, queen_side |-> FALSE]
BoardCastleRights_all == [white |-> ColorCastleRights_all, black |-> ColorCastleRights_all]
BoardCastleRights_none == [white |-> ColorCastleRights_none, black |-> ColorCastleRights_none]

test_right(rights, side) == IF side = KingSide THEN rights.king_side ELSE rights.queen_side
get_rights(rights, color) == IF color = White THEN rights.white ELSE rights.black
set_rights(rights, color, r) ==
    IF color = White THEN [rights EXCEPT !.white = r] ELSE [rights EXCEPT !.black = r]
clear_king_side(rights, color) ==
    IF color = White THEN [rights EXCEPT !.white.king_side = FALSE]
                     ELSE [rights EXCEPT !.black.king_side = FALSE]
clear_queen_side(rights, color) ==
    IF color = White THEN [rights EXCEPT !.white.queen_side = FALSE]
                     ELSE [rights EXCEPT !.black.queen_side = FALSE]

\* ------------------------------------------------------------------- Move

from_to(board, piece_kind, from, to) ==
    [ piece_kind |-> piece_kind,
      from |-> from,
      to |-> to,
      capture |-> None,
      en_passant_before |-> board.en_passant,
      en_passant_after |-> None,
      castle_rights_before |-> board.castle_rights,
      castle |-> None,
      promotion |-> None ]

Move_castle(board, color, castle) ==
    LET f == IF castle = KingSide THEN 6 ELSE 2
        r == back_rank(color)
    IN [from_to(board, King, at(4, r), at(f, r)) EXCEPT !.castle = Some(castle)]

Move_promotion(board, from, to, promotion) ==
    [from_to(board, Pawn, from, to) EXCEPT !.promotion = Some(promotion)]

promotion_capture(board, from, to, capture, promotion) ==
    [from_to(board, Pawn, from, to) EXCEPT !.capture = Some(capture),
                                           !.promotion = Some(promotion)]

from_to_en_passant(board, from, to, en_passant) ==
    [from_to(board, Pawn, from, to) EXCEPT !.en_passant_after = Some(en_passant)]

from_to_capture(board, piece_kind, from, to, capture) ==
    [from_to(board, piece_kind, from, to) EXCEPT !.capture = Some(capture)]

\* castle_rights_after with the two rook corners exchanged.
castle_rights_after_swapped_corners(m, side) ==
    IF m.piece_kind = King THEN set_rights(m.castle_rights_before, side, ColorCastleRights_none)
    ELSE IF m.piece_kind = Rook /\ m.from = at(7, back_rank(side))
    THEN clear_queen_side(m.castle_rights_before, side)
    ELSE IF m.piece_kind = Rook /\ m.from = at(0, back_rank(side))
    THEN clear_king_side(m.castle_rights_before, side)
    ELSE m.castle_rights_before

\* castle_rights_after without its capture branch.
castle_rights_after_ignoring_capture(m, side) ==
    IF m.piece_kind = King THEN set_rights(m.castle_rights_before, side, ColorCastleRights_none)
    ELSE IF m.piece_kind = Rook /\ m.from = at(7, back_rank(side))
    THEN clear_king_side(m.castle_rights_before, side)
    ELSE IF m.piece_kind = Rook /\ m.from = at(0, back_rank(side))
    THEN clear_queen_side(m.castle_rights_before, side)
    ELSE m.castle_rights_before

\* castle_rights_after starting from BoardCastleRights::all() instead of
\* self.castle_rights_before.
castle_rights_after_from_all(m, side) ==
    IF m.piece_kind = King THEN set_rights(BoardCastleRights_all, side, ColorCastleRights_none)
    ELSE IF m.piece_kind = Rook /\ m.from = at(7, back_rank(side))
    THEN clear_king_side(BoardCastleRights_all, side)
    ELSE IF m.piece_kind = Rook /\ m.from = at(0, back_rank(side))
    THEN clear_queen_side(BoardCastleRights_all, side)
    ELSE m.castle_rights_before

castle_rights_after(m, side) ==
    LET other_side == switch(side)
        r0 == m.castle_rights_before
        r1 == IF m.piece_kind = King THEN set_rights(r0, side, ColorCastleRights_none)
              ELSE IF m.piece_kind = Rook THEN
                 LET a == IF m.from = at(7, back_rank(side))
                          THEN clear_king_side(r0, side) ELSE r0
                 IN IF m.from = at(0, back_rank(side))
                    THEN clear_queen_side(a, side) ELSE a
              ELSE r0
    IN IF IsSome(m.capture) THEN
          LET csq == Unwrap(m.capture).square
              b == IF csq = at(7, back_rank(other_side))
                   THEN clear_king_side(r1, other_side) ELSE r1
          IN IF csq = at(0, back_rank(other_side))
             THEN clear_queen_side(b, other_side) ELSE b
       ELSE r1

\* The rook's move of a castle; ok is the assertion rank == 0 || rank == 7.
rook_castle(board, castle, r) ==
    [ ok |-> (r = 0 \/ r = 7),
      move |-> IF castle = KingSide
               THEN from_to(board, Rook, at(7, r), at(5, r))
               ELSE from_to(board, Rook, at(0, r), at(3, r)) ]

\* ------------------------------------------------------------------ Board

Ok(b) == [board |-> b, ok |-> TRUE]
Panicked(b) == [board |-> b, ok |-> FALSE]

create_empty ==
    [ piece_list |-> [i \in 0..(PieceSlots - 1) |-> None],
      piece_free_list |-> [i \in 1..PieceSlots |-> i - 1],
      square_list |-> [i \in 0..(SquareCount - 1) |-> None],
      side |-> White,
      en_passant |-> None,
      castle_rights |-> BoardCastleRights_none ]

\* square_list[square.index()]. Square::index is not in src/, so neither is
\* what the lookup does for an off-board square; per the spec an off-board
\* probe has no effect and reads as an empty square.
square_list_at(board, square) ==
    IF is_on_board(square) THEN board.square_list[index(square)] ELSE None

add_piece(board, piece) ==
    IF board.piece_free_list = <<>> THEN Panicked(board)
    ELSE
      LET n == Len(board.piece_free_list)
          piece_list_index == board.piece_free_list[n]
          b1 == [board EXCEPT
                   !.piece_free_list = SubSeq(@, 1, n - 1),
                   !.piece_list[piece_list_index] =
                       Some([piece |-> piece.piece, square |-> piece.square])]
          square_index == index(piece.square)
      IN IF IsSome(b1.square_list[square_index]) THEN Panicked(b1)
         ELSE Ok([b1 EXCEPT !.square_list[square_index] = Some(piece_list_index)])

\* for piece in pieces.iter() { self.add_piece(piece) } for pieces[lo..hi] in
\* order, none of them run once add_piece has panicked (the range is halved
\* to keep the evaluation shallow).
RECURSIVE add_pieces_between(_, _, _, _)
add_pieces_between(r, pieces, lo, hi) ==
    IF ~r.ok THEN r
    ELSE IF lo = hi THEN add_piece(r.board, pieces[lo])
    ELSE add_pieces_between(add_pieces_between(r, pieces, lo, (lo + hi) \div 2),
                            pieces, (lo + hi) \div 2 + 1, hi)

add_pieces(board, pieces) ==
    IF pieces = <<>> THEN board
    ELSE add_pieces_between(Ok(board), pieces, 1, Len(pieces)).board

remove_piece(board, square) ==
    LET entry == board.square_list[index(square)]
    IN IF IsNone(entry) THEN Panicked(board)
       ELSE Ok([board EXCEPT
                  !.square_list[index(square)] = None,
                  !.piece_list[Unwrap(entry)] = None,
                  !.piece_free_list = Append(@, Unwrap(entry))])

piece_at(board, square) ==
    LET entry == square_list_at(board, square)
    IN IF IsSome(entry)
       THEN Some(Unwrap(board.piece_list[Unwrap(entry)]).piece)
       ELSE None

has_piece_at(board, square) == IsSome(square_list_at(board, square))

\* self.piece_list[i].unwrap().square = square
\* Option<PieceListEntry> is Copy, so unwrap() hands back a copy of the
\* entry and the assignment writes the field of that temporary: the entry
\* stored in piece_list keeps the square it was added with.
set_entry_square(board, piece_list_index, square) == board

\* let v = ...; the value is computed once and named in the rest of the body.
Let(v, F(_)) == F(v)

\* Statement sequencing: F runs on the board r leaves, unless r panicked.
AndThen(r, F(_)) == IF r.ok THEN F(r.board) ELSE r

\* if let Some(castle) = m.castle { self.apply_move_impl(Move::rook_castle(..)) }
RECURSIVE apply_move_impl(_, _)
apply_rook_castle(board, m) ==
    IF IsNone(m.castle) THEN Ok(board)
    ELSE Let(rook_castle(board, Unwrap(m.castle), rank(m.from)), LAMBDA rook :
           IF rook.ok THEN apply_move_impl(board, rook.move) ELSE Panicked(board))

apply_move_impl(board, m) ==
    IF IsNone(piece_at(board, m.from)) \/ Unwrap(piece_at(board, m.from)).kind /= m.piece_kind
    THEN Panicked(board)
    ELSE AndThen(apply_rook_castle(board, m), LAMBDA b1 :
      IF IsNone(b1.square_list[index(m.from)]) THEN Panicked(b1)
      ELSE Let(Unwrap(b1.square_list[index(m.from)]), LAMBDA piece_list_index :
           Let([b1 EXCEPT !.square_list[index(m.from)] = None], LAMBDA b2 :
             IF IsSome(m.promotion)
             THEN AndThen(remove_piece(b2, m.from), LAMBDA b3 :
                    add_piece(b3, [piece |-> colored(Unwrap(m.promotion), b3.side),
                                   square |-> m.to]))
             ELSE Ok([set_entry_square(b2, piece_list_index, m.to)
                        EXCEPT !.square_list[index(m.to)] = Some(piece_list_index)]))))

\* apply_move assigning en_passant only when the move sets a new target.
apply_move_keeping_en_passant(board, m) ==
    IF m.en_passant_before /= board.en_passant THEN Panicked(board)
    ELSE AndThen(IF IsSome(m.capture)
                 THEN remove_piece(board, Unwrap(m.capture).square)
                 ELSE (IF has_piece_at(board, m.to) THEN Panicked(board) ELSE Ok(board)),
                 LAMBDA b1 :
         AndThen(apply_move_impl(b1, m), LAMBDA b2 :
           Ok([b2 EXCEPT !.en_passant = IF IsSome(m.en_passant_after)
                                        THEN m.en_passant_after ELSE @,
                         !.castle_rights = castle_rights_after(m, b2.side),
                         !.side = switch(b2.side)])))

\* apply_move with the en-passant assertion made after the move instead of
\* before it.
apply_move_asserting_last(board, m) ==
    AndThen(IF IsSome(m.capture)
            THEN remove_piece(board, Unwrap(m.capture).square)
            ELSE (IF has_piece_at(board, m.to) THEN Panicked(board) ELSE Ok(board)),
            LAMBDA b1 :
    AndThen(apply_move_impl(b1, m), LAMBDA b2 :
      IF m.en_passant_before /= board.en_passant THEN Panicked(b2)
      ELSE Ok([b2 EXCEPT !.en_passant = m.en_passant_after,
                         !.castle_rights = castle_rights_after(m, b2.side),
                         !.side = switch(b2.side)])))

apply_move(board, m) ==
    IF m.en_passant_before /= board.en_passant THEN Panicked(board)
    ELSE AndThen(IF IsSome(m.capture)
                 THEN remove_piece(board, Unwrap(m.capture).square)
                 ELSE (IF has_piece_at(board, m.to) THEN Panicked(board) ELSE Ok(board)),
                 LAMBDA b1 :
         AndThen(apply_move_impl(b1, m), LAMBDA b2 :
           Ok([b2 EXCEPT !.en_passant = m.en_passant_after,
                         !.castle_rights = castle_rights_after(m, b2.side),
                         !.side = switch(b2.side)])))

\* if let Some(castle) = m.castle { self.revert_move_impl(Move::rook_castle(..)) }
RECURSIVE revert_move_impl(_, _)
revert_rook_castle(board, m) ==
    IF IsNone(m.castle) THEN Ok(board)
    ELSE Let(rook_castle(board, Unwrap(m.castle), rank(m.from)), LAMBDA rook :
           IF rook.ok THEN revert_move_impl(board, rook.move) ELSE Panicked(board))

revert_move_impl(board, m) ==
    IF IsNone(piece_at(board, m.to))
       \/ Unwrap(piece_at(board, m.to)).kind
            /= (IF IsSome(m.promotion) THEN Unwrap(m.promotion) ELSE m.piece_kind)
    THEN Panicked(board)
    ELSE AndThen(revert_rook_castle(board, m), LAMBDA b1 :
      IF IsNone(b1.square_list[index(m.to)]) THEN Panicked(b1)
      ELSE Let(Unwrap(b1.square_list[index(m.to)]), LAMBDA piece_list_index :
           Let([b1 EXCEPT !.square_list[index(m.to)] = None], LAMBDA b2 :
             IF IsSome(m.promotion)
             THEN AndThen(remove_piece(b2, m.to), LAMBDA b3 :
                    add_piece(b3, [piece |-> colored(Pawn, b3.side), square |-> m.from]))
             ELSE Ok([set_entry_square(b2, piece_list_index, m.from)
                        EXCEPT !.square_list[index(m.from)] = Some(piece_list_index)]))))

\* revert_move without the assignment of m.castle_rights_before.
revert_move_keeping_rights(board, m) ==
    AndThen(revert_move_impl(board, m), LAMBDA b1 :
    AndThen(IF IsSome(m.capture) THEN add_piece(b1, Unwrap(m.capture)) ELSE Ok(b1),
            LAMBDA b2 :
      Ok([b2 EXCEPT !.side = switch(b2.side),
                    !.en_passant = m.en_passant_before])))

revert_move(board, m) ==
    AndThen(revert_move_impl(board, m), LAMBDA b1 :
    AndThen(IF IsSome(m.capture) THEN add_piece(b1, Unwrap(m.capture)) ELSE Ok(b1),
            LAMBDA b2 :
      Ok([b2 EXCEPT !.side = switch(b2.side),
                    !.en_passant = m.en_passant_before,
                    !.castle_rights = m.castle_rights_before])))

\* The slots holding a king of the given color, in the order the loop of
\* king_square meets them.
king_slots(board, color) ==
    {i \in 0..(PieceSlots - 1) :
        /\ IsSome(board.piece_list[i])
        /\ Unwrap(board.piece_list[i]).piece.kind = King
        /\ Unwrap(board.piece_list[i]).piece.color = color}

king_square(board, color) ==
    IF king_slots(board, color) = {} THEN None
    ELSE Some(Unwrap(board.piece_list[
                CHOOSE i \in king_slots(board, color) :
                    \A j \in king_slots(board, color) : i <= j]).square)

\* -------------------------------------------------------- move generation

STRAIGHT_DIRECTIONS == << <<1, 0>>, <<-1, 0>>, <<0, 1>>, <<0, -1>> >>
DIAGONAL_DIRECTIONS == << <<1, 1>>, <<-1, 1>>, <<-1, -1>>, <<1, -1>> >>
KNIGHT_DIRECTIONS ==
    << <<-2, -1>>, <<-1, -2>>, <<1, -2>>, <<2, -1>>,
       <<2, 1>>, <<1, 2>>, <<-1, 2>>, <<-2, 1>> >>
KING_DIRECTIONS ==
    << <<1, 0>>, <<-1, 0>>, <<0, 1>>, <<0, -1>>,
       <<1, 1>>, <<-1, 1>>, <<-1, -1>>, <<1, -1>> >>
PROMOTION_KINDS == <<Knight, Bishop, Rook, Queen>>
PAWN_FILE_DELTAS == <<-1, 1>>

\* probe_move with the board's bounds tested one square too wide.
probe_move_off_by_one(board, piece, current_square, x_delta, y_delta) ==
    LET target_square == delta(current_square, x_delta, y_delta)
        target_piece == piece_at(board, target_square)
    IN
    IF \/ target_square[1] < 0 \/ target_square[1] > BoardSize
       \/ target_square[2] < 0 \/ target_square[2] > BoardSize
    THEN [moves |-> <<>>, unoccupied |-> FALSE]
    ELSE IF IsSome(target_piece) THEN
        IF Unwrap(target_piece).color = piece.color
        THEN [moves |-> <<>>, unoccupied |-> FALSE]
        ELSE [moves |-> <<from_to_capture(board, piece.kind, current_square, target_square,
                              [piece |-> Unwrap(target_piece), square |-> target_square])>>,
              unoccupied |-> FALSE]
    ELSE [moves |-> <<from_to(board, piece.kind, current_square, target_square)>>,
          unoccupied |-> TRUE]

\* The moves probe_move pushes (none or one) and its return value.
probe_move(board, piece, current_square, x_delta, y_delta) ==
    LET target_square == delta(current_square, x_delta, y_delta)
        target_piece == piece_at(board, target_square)
    IN
    IF ~is_on_board(target_square) THEN [moves |-> <<>>, unoccupied |-> FALSE]
    ELSE IF IsSome(target_piece) THEN
        IF Unwrap(target_piece).color = piece.color
        THEN [moves |-> <<>>, unoccupied |-> FALSE]
        ELSE [moves |-> <<from_to_capture(board, piece.kind, current_square, target_square,
                              [piece |-> Unwrap(target_piece), square |-> target_square])>>,
              unoccupied |-> FALSE]
    ELSE [moves |-> <<from_to(board, piece.kind, current_square, target_square)>>,
          unoccupied |-> TRUE]

RECURSIVE directional_from(_, _, _, _, _, _)
directional_from(board, piece, current_square, x_delta, y_delta, step_idx) ==
    LET p == probe_move(board, piece, current_square, x_delta * step_idx, y_delta * step_idx)
    IN IF ~p.unoccupied THEN p.moves
       ELSE p.moves \o directional_from(board, piece, current_square,
                                        x_delta, y_delta, step_idx + 1)

generate_directional_moves(board, piece, current_square, x_delta, y_delta) ==
    directional_from(board, piece, current_square, x_delta, y_delta, 1)

\* generate_pawn_move comparing the destination with the wrong rank, so that
\* no move is expanded into promotions.
generate_pawn_move_never_promoting(board, piece, from, to, capture) ==
    IF IsSome(capture)
    THEN <<from_to_capture(board, Pawn, from, to, Unwrap(capture))>>
    ELSE <<from_to(board, Pawn, from, to)>>

generate_pawn_move(board, piece, from, to, capture) ==
    IF rank(to) = promotion_rank(piece.color) THEN
        [i \in 1..Len(PROMOTION_KINDS) |->
            IF IsSome(capture)
            THEN promotion_capture(board, from, to, Unwrap(capture), PROMOTION_KINDS[i])
            ELSE Move_promotion(board, from, to, PROMOTION_KINDS[i])]
    ELSE IF IsSome(capture)
         THEN <<from_to_capture(board, Pawn, from, to, Unwrap(capture))>>
         ELSE <<from_to(board, Pawn, from, to)>>

\* One iteration of the pawn's capture loop; ok is the unwrap of the
\* en-passant victim.
pawn_capture_moves(board, piece, square, file_delta) ==
    LET fwd == forward(piece.color)
        target == delta(square, file_delta, fwd)
        target_piece == piece_at(board, target)
        plain == IF IsSome(target_piece) /\ Unwrap(target_piece).color /= piece.color
                 THEN generate_pawn_move(board, piece, square, target,
                          Some([piece |-> Unwrap(target_piece), square |-> target]))
                 ELSE <<>>
        is_ep == IsSome(board.en_passant) /\ Unwrap(board.en_passant) = target
        victim == piece_at(board, delta(square, file_delta, 0))
    IN IF ~is_ep THEN [moves |-> plain, ok |-> TRUE]
       ELSE IF IsNone(victim) THEN [moves |-> plain, ok |-> FALSE]
       ELSE [moves |-> Append(plain,
                 from_to_capture(board, piece.kind, square, target,
                     [piece |-> Unwrap(victim), square |-> delta(square, file_delta, 0)])),
             ok |-> TRUE]

\* pawn_moves without the double push from the home rank.
pawn_moves_without_double_push(board, piece, square) ==
    LET fwd == forward(piece.color)
        one == delta(square, 0, fwd)
        push == IF ~has_piece_at(board, one) /\ is_on_board(one)
                THEN generate_pawn_move(board, piece, square, one, None)
                ELSE <<>>
        c1 == pawn_capture_moves(board, piece, square, PAWN_FILE_DELTAS[1])
        c2 == pawn_capture_moves(board, piece, square, PAWN_FILE_DELTAS[2])
    IN IF ~c1.ok THEN [moves |-> push \o c1.moves, ok |-> FALSE]
       ELSE [moves |-> push \o c1.moves \o c2.moves, ok |-> c2.ok]

pawn_moves(board, piece, square) ==
    LET fwd == forward(piece.color)
        one == delta(square, 0, fwd)
        two == delta(square, 0, fwd * 2)
        push == IF ~has_piece_at(board, one) /\ is_on_board(one)
                THEN generate_pawn_move(board, piece, square, one, None)
                     \o (IF rank(square) = home_rank(piece.color)
                            /\ ~has_piece_at(board, two) /\ is_on_board(two)
                         THEN <<from_to_en_passant(board, square, two, one)>>
                         ELSE <<>>)
                ELSE <<>>
        c1 == pawn_capture_moves(board, piece, square, PAWN_FILE_DELTAS[1])
        c2 == pawn_capture_moves(board, piece, square, PAWN_FILE_DELTAS[2])
    IN IF ~c1.ok THEN [moves |-> push \o c1.moves, ok |-> FALSE]
       ELSE [moves |-> push \o c1.moves \o c2.moves, ok |-> c2.ok]

RECURSIVE directions_from(_, _, _, _, _)
directions_from(board, piece, square, directions, i) ==
    IF i > Len(directions) THEN <<>>
    ELSE generate_directional_moves(board, piece, square, directions[i][1], directions[i][2])
         \o directions_from(board, piece, square, directions, i + 1)

RECURSIVE probes_from(_, _, _, _, _)
probes_from(board, piece, square, directions, i) ==
    IF i > Len(directions) THEN <<>>
    ELSE probe_move(board, piece, square, directions[i][1], directions[i][2]).moves
         \o probes_from(board, piece, square, directions, i + 1)

king_moves_ignoring_blockers(board, piece, square) ==
    LET rights == get_rights(board.castle_rights, piece.color)
    IN probes_from(board, piece, square, KING_DIRECTIONS, 1)
       \o (IF test_right(rights, KingSide)
           THEN <<Move_castle(board, piece.color, KingSide)>> ELSE <<>>)
       \o (IF test_right(rights, QueenSide)
           THEN <<Move_castle(board, piece.color, QueenSide)>> ELSE <<>>)

king_moves(board, piece, square) ==
    LET r == back_rank(piece.color)
        rights == get_rights(board.castle_rights, piece.color)
    IN probes_from(board, piece, square, KING_DIRECTIONS, 1)
       \o (IF test_right(rights, KingSide)
              /\ ~has_piece_at(board, at(5, r)) /\ ~has_piece_at(board, at(6, r))
           THEN <<Move_castle(board, piece.color, KingSide)>> ELSE <<>>)
       \o (IF test_right(rights, QueenSide)
              /\ ~has_piece_at(board, at(3, r)) /\ ~has_piece_at(board, at(2, r))
              /\ ~has_piece_at(board, at(1, r))
           THEN <<Move_castle(board, piece.color, QueenSide)>> ELSE <<>>)

\* The body of generate_moves' loop for one piece of the side to move.
piece_moves(board, piece, square) ==
    CASE piece.kind = Pawn -> pawn_moves(board, piece, square)
      [] piece.kind = Rook ->
           [moves |-> directions_from(board, piece, square, STRAIGHT_DIRECTIONS, 1), ok |-> TRUE]
      [] piece.kind = Bishop ->
           [moves |-> directions_from(board, piece, square, DIAGONAL_DIRECTIONS, 1), ok |-> TRUE]
      [] piece.kind = Queen ->
           [moves |-> directions_from(board, piece, square, STRAIGHT_DIRECTIONS, 1)
                      \o directions_from(board, piece, square, DIAGONAL_DIRECTIONS, 1),
            ok |-> TRUE]
      [] piece.kind = King -> [moves |-> king_moves(board, piece, square), ok |-> TRUE]
      [] piece.kind = Knight ->
           [moves |-> probes_from(board, piece, square, KNIGHT_DIRECTIONS, 1), ok |-> TRUE]
      [] piece.kind = Dummy -> [moves |-> <<>>, ok |-> TRUE]

\* for entry in board.piece_list.iter(): the slots in index order, each
\* occupied slot giving the piece and the square recorded in its entry.
\* The moves pushed, in order, by two consecutive parts of generate_moves;
\* nothing is pushed after a panic.
Join(first, second) ==
    IF ~first.ok THEN first
    ELSE [moves |-> first.moves \o second.moves, ok |-> second.ok]

\* One iteration of generate_moves' loop: the moves of the piece in slot i.
slot_moves(board, i) ==
    IF IsNone(board.piece_list[i]) \/ Unwrap(board.piece_list[i]).piece.color /= board.side
    THEN [moves |-> <<>>, ok |-> TRUE]
    ELSE piece_moves(board, Unwrap(board.piece_list[i]).piece,
                            Unwrap(board.piece_list[i]).square)

\* for entry in board.piece_list.iter(): the iterations for slots lo..hi in
\* index order (the range is halved to keep the evaluation shallow).
RECURSIVE generate_moves_between(_, _, _)
generate_moves_between(board, lo, hi) ==
    IF lo = hi THEN slot_moves(board, lo)
    ELSE Join(generate_moves_between(board, lo, (lo + hi) \div 2),
              generate_moves_between(board, (lo + hi) \div 2 + 1, hi))

\* The loop of probe_direction from its current square on.
RECURSIVE probe_direction_from(_, _, _)
probe_direction_from(board, square, direction) ==
    IF ~is_on_board(square) THEN None
    ELSE IF IsSome(piece_at(board, square)) THEN piece_at(board, square)
    ELSE probe_direction_from(board, delta(square, direction[1], direction[2]), direction)

probe_direction(board, from, direction) ==
    probe_direction_from(board, delta(from, direction[1], direction[2]), direction)

is_check_opposing_forward(board, color) ==
    IF IsNone(king_square(board, color)) THEN FALSE
    ELSE
      Let(Unwrap(king_square(board, color)), LAMBDA square :
        \/ \E i \in 1..Len(STRAIGHT_DIRECTIONS) :
             probe_direction(board, square, STRAIGHT_DIRECTIONS[i])
               \in {Some(colored(Rook, switch(color))), Some(colored(Queen, switch(color)))}
        \/ \E i \in 1..Len(DIAGONAL_DIRECTIONS) :
             probe_direction(board, square, DIAGONAL_DIRECTIONS[i])
               \in {Some(colored(Bishop, switch(color))), Some(colored(Queen, switch(color)))}
        \/ \E i \in 1..Len(KNIGHT_DIRECTIONS) :
             piece_at(board, delta(square, KNIGHT_DIRECTIONS[i][1], KNIGHT_DIRECTIONS[i][2]))
               = Some(colored(Knight, switch(color)))
        \/ \E i \in 1..Len(PAWN_FILE_DELTAS) :
             piece_at(board, delta(square, PAWN_FILE_DELTAS[i], forward(switch(color))))
               = Some(colored(Pawn, switch(color))))

\* Each loop of is_check returns true at its first hit, so the result is the
\* disjunction of the four loops.
is_check(board, color) ==
    IF IsNone(king_square(board, color)) THEN FALSE
    ELSE
      Let(Unwrap(king_square(board, color)), LAMBDA square :
        \/ \E i \in 1..Len(STRAIGHT_DIRECTIONS) :
             probe_direction(board, square, STRAIGHT_DIRECTIONS[i])
               \in {Some(colored(Rook, switch(color))), Some(colored(Queen, switch(color)))}
        \/ \E i \in 1..Len(DIAGONAL_DIRECTIONS) :
             probe_direction(board, square, DIAGONAL_DIRECTIONS[i])
               \in {Some(colored(Bishop, switch(color))), Some(colored(Queen, switch(color)))}
        \/ \E i \in 1..Len(KNIGHT_DIRECTIONS) :
             piece_at(board, delta(square, KNIGHT_DIRECTIONS[i][1], KNIGHT_DIRECTIONS[i][2]))
               = Some(colored(Knight, switch(color)))
        \/ \E i \in 1..Len(PAWN_FILE_DELTAS) :
             piece_at(board, delta(square, PAWN_FILE_DELTAS[i], forward(color)))
               = Some(colored(Pawn, switch(color))))

\* The moves of moves[lo..hi] after which is_check is false for the mover.
RECURSIVE legal_between(_, _, _, _)
legal_between(board, moves, lo, hi) ==
    IF lo > hi THEN <<>>
    ELSE IF lo = hi
    THEN Let(apply_move(board, moves[lo]), LAMBDA a :
           IF a.ok /\ is_check(a.board, board.side) THEN <<>> ELSE <<moves[lo]>>)
    ELSE legal_between(board, moves, lo, (lo + hi) \div 2)
         \o legal_between(board, moves, (lo + hi) \div 2 + 1, hi)

generate_moves_filtered_by_is_check(board) ==
    Let(generate_moves_between(board, 0, PieceSlots - 1), LAMBDA g :
      [moves |-> legal_between(board, g.moves, 1, Len(g.moves)), ok |-> g.ok])

generate_moves(board) == generate_moves_between(board, 0, PieceSlots - 1)

\* -------------------------------------------------------------- semantic_eq

kind_ord(kind) ==
    CASE kind = Pawn -> 0 [] kind = Knight -> 1 [] kind = Bishop -> 2
      [] kind = Rook -> 3 [] kind = Queen -> 4 [] kind = King -> 5 [] kind = Dummy -> 6

color_ord(color) == IF color = White THEN 0 ELSE 1

\* #[derive(Ord)] on Option<PieceListEntry>: None first, then by piece
\* (kind, color), then by square (x, y). The key is strictly monotone in
\* that order for entries whose squares are on the board.
entry_key(entry) ==
    IF IsNone(entry) THEN 0
    ELSE LET e == Unwrap(entry)
         IN 1 + (((kind_ord(e.piece.kind) * 2 + color_ord(e.piece.color)) * BoardSize
                  + e.square[1]) * BoardSize + e.square[2])

\* How many entries of piece_list sort before the given entry, and how many
\* are equal to it.
entries_below(piece_list, entry) ==
    Cardinality({i \in 0..(PieceSlots - 1) : entry_key(piece_list[i]) < entry_key(entry)})
entries_equal(piece_list, entry) ==
    Cardinality({i \in 0..(PieceSlots - 1) : piece_list[i] = entry})

\* piece_list.clone() followed by sort(): position k holds the entry that has
\* fewer than k entries before it and at least k entries up to itself.
sorted_piece_list(piece_list) ==
    [k \in 1..PieceSlots |->
        CHOOSE entry \in {piece_list[i] : i \in 0..(PieceSlots - 1)} :
            /\ entries_below(piece_list, entry) < k
            /\ k <= entries_below(piece_list, entry) + entries_equal(piece_list, entry)]

semantic_eq(a, b) ==
    IF a.side /= b.side \/ a.en_passant /= b.en_passant \/ a.castle_rights /= b.castle_rights
    THEN FALSE
    ELSE sorted_piece_list(a.piece_list) = sorted_piece_list(b.piece_list)

\* --------------------------------------------------------------- evaluation

\* The loop of static_evaluation over slots lo..hi (the range is halved to
\* keep the evaluation shallow).
RECURSIVE static_evaluation_between(_, _, _)
static_evaluation_between(board, lo, hi) ==
    IF lo = hi
    THEN (IF IsSome(board.piece_list[lo]) THEN piece_value(Unwrap(board.piece_list[lo]).piece)
          ELSE 0)
    ELSE static_evaluation_between(board, lo, (lo + hi) \div 2)
         + static_evaluation_between(board, (lo + hi) \div 2 + 1, hi)

static_evaluation_unsigned(board) ==
    static_evaluation_between(
        [board EXCEPT !.piece_list =
            [i \in DOMAIN board.piece_list |->
                IF IsSome(board.piece_list[i])
                THEN Some([Unwrap(board.piece_list[i]) EXCEPT !.piece.color = White])
                ELSE None]],
        0, PieceSlots - 1)

static_evaluation(board) == static_evaluation_between(board, 0, PieceSlots - 1)

\* The outcome of a search call: the value it returns, the line, the board
\* it leaves behind, the nodes it counted, and whether it returned at all.
Leaf(board) ==
    [value |-> static_evaluation(board), line |-> <<>>, board |-> board,
     nodes |-> 1, ok |-> TRUE]
Aborted(board, nodes) ==
    [value |-> 0, line |-> <<>>, board |-> board, nodes |-> nodes, ok |-> FALSE]

\* The locals of a search loop: the shared board, whether every call so far
\* returned, node_count, best_move_evaluation, best_line, alpha, beta, and
\* the value of an early return out of the loop.
Searching(board, alpha, beta) ==
    [board |-> board, ok |-> TRUE, nodes |-> 1, best |-> None, best_line |-> <<>>,
     alpha |-> alpha, beta |-> beta, cut |-> None]
Abort(s, board, nodes) == [s EXCEPT !.board = board, !.ok = FALSE, !.nodes = @ + nodes]

RECURSIVE minimax(_, _, _, _)
\* One iteration of minimax's loop: apply, recurse, evaluation *= neg,
\* revert, keep the best.
minimax_step(s, m, depth, max_depth, neg) ==
    Let(apply_move(s.board, m), LAMBDA a :
      IF ~a.ok THEN Abort(s, a.board, 0)
      ELSE
        Let(minimax(a.board, depth + 1, max_depth, neg * (-1)), LAMBDA c :
          IF ~c.ok THEN Abort(s, c.board, c.nodes)
          ELSE
            Let(revert_move(c.board, m), LAMBDA r :
              IF ~r.ok THEN Abort(s, r.board, c.nodes)
              ELSE IF IsNone(s.best) \/ c.value * neg > Unwrap(s.best)
              THEN [s EXCEPT !.board = r.board, !.nodes = @ + c.nodes,
                             !.best = Some(c.value * neg),
                             !.best_line = <<m>> \o c.line]
              ELSE [s EXCEPT !.board = r.board, !.nodes = @ + c.nodes])))

\* for m in moves.iter(): the iterations for moves[lo..hi] in order, none of
\* them run once a call has panicked (the range is halved to keep the
\* evaluation shallow).
RECURSIVE minimax_loop(_, _, _, _, _, _, _)
minimax_loop(s, moves, lo, hi, depth, max_depth, neg) ==
    IF ~s.ok THEN s
    ELSE IF lo = hi THEN minimax_step(s, moves[lo], depth, max_depth, neg)
    ELSE minimax_loop(minimax_loop(s, moves, lo, (lo + hi) \div 2, depth, max_depth, neg),
                      moves, (lo + hi) \div 2 + 1, hi, depth, max_depth, neg)

minimax(board, depth, max_depth, neg) ==
    IF depth = max_depth THEN Leaf(board)
    ELSE Let(generate_moves(board), LAMBDA g :
           IF ~g.ok THEN Aborted(board, 1)
           ELSE IF g.moves = <<>> THEN Leaf(board)
           ELSE Let(minimax_loop(Searching(board, 0, 0), g.moves, 1, Len(g.moves),
                                 depth, max_depth, neg),
                    LAMBDA s :
                  IF ~s.ok THEN Aborted(s.board, s.nodes)
                  ELSE [value |-> Unwrap(s.best) * neg, line |-> s.best_line,
                        board |-> s.board, nodes |-> s.nodes, ok |-> TRUE]))

MinimaxEvaluator_evaluate(board, max_depth) ==
    minimax(board, 0, max_depth, IF board.side = White THEN 1 ELSE -1)

\* What alpha_beta_min / alpha_beta_max return once their loop has ended.
alpha_beta_return(s) ==
    IF ~s.ok THEN Aborted(s.board, s.nodes)
    ELSE [value |-> IF IsSome(s.cut) THEN Unwrap(s.cut) ELSE Unwrap(s.best),
          line |-> <<>>, board |-> s.board, nodes |-> s.nodes, ok |-> TRUE]

RECURSIVE alpha_beta_min(_, _, _, _, _)
RECURSIVE alpha_beta_max(_, _, _, _, _)
\* One iteration of alpha_beta_min's loop.
alpha_beta_min_step(s, m, depth, max_depth) ==
    Let(apply_move(s.board, m), LAMBDA a :
      IF ~a.ok THEN Abort(s, a.board, 0)
      ELSE
        Let(alpha_beta_max(a.board, s.alpha, s.beta, depth + 1, max_depth), LAMBDA c :
          IF ~c.ok THEN Abort(s, c.board, c.nodes)
          ELSE
            Let(revert_move(c.board, m), LAMBDA r :
              IF ~r.ok THEN Abort(s, r.board, c.nodes)
              ELSE IF c.value <= s.alpha
              THEN [s EXCEPT !.board = r.board, !.nodes = @ + c.nodes,
                             !.cut = Some(c.value)]
              ELSE [s EXCEPT !.board = r.board, !.nodes = @ + c.nodes,
                             !.beta = IF c.value < @ THEN c.value ELSE @,
                             !.best = IF IsNone(@) \/ c.value < Unwrap(@)
                                      THEN Some(c.value) ELSE @])))

\* One iteration of alpha_beta_max's loop.
alpha_beta_max_step(s, m, depth, max_depth) ==
    Let(apply_move(s.board, m), LAMBDA a :
      IF ~a.ok THEN Abort(s, a.board, 0)
      ELSE
        Let(alpha_beta_min(a.board, s.alpha, s.beta, depth + 1, max_depth), LAMBDA c :
          IF ~c.ok THEN Abort(s, c.board, c.nodes)
          ELSE
            Let(revert_move(c.board, m), LAMBDA r :
              IF ~r.ok THEN Abort(s, r.board, c.nodes)
              ELSE IF c.value >= s.beta
              THEN [s EXCEPT !.board = r.board, !.nodes = @ + c.nodes,
                             !.cut = Some(c.value)]
              ELSE [s EXCEPT !.board = r.board, !.nodes = @ + c.nodes,
                             !.alpha = IF c.value > @ THEN c.value ELSE @,
                             !.best = IF IsNone(@) \/ c.value > Unwrap(@)
                                      THEN Some(c.value) ELSE @])))

\* for m in moves.iter(): the iterations for moves[lo..hi] in order, none of
\* them run after a panic or an early return (the range is halved to keep
\* the evaluation shallow).
RECURSIVE alpha_beta_min_loop(_, _, _, _, _, _)
alpha_beta_min_loop(s, moves, lo, hi, depth, max_depth) ==
    IF ~s.ok \/ IsSome(s.cut) THEN s
    ELSE IF lo = hi THEN alpha_beta_min_step(s, moves[lo], depth, max_depth)
    ELSE alpha_beta_min_loop(
             alpha_beta_min_loop(s, moves, lo, (lo + hi) \div 2, depth, max_depth),
             moves, (lo + hi) \div 2 + 1, hi, depth, max_depth)

RECURSIVE alpha_beta_max_loop(_, _, _, _, _, _)
alpha_beta_max_loop(s, moves, lo, hi, depth, max_depth) ==
    IF ~s.ok \/ IsSome(s.cut) THEN s
    ELSE IF lo = hi THEN alpha_beta_max_step(s, moves[lo], depth, max_depth)
    ELSE alpha_beta_max_loop(
             alpha_beta_max_loop(s, moves, lo, (lo + hi) \div 2, depth, max_depth),
             moves, (lo + hi) \div 2 + 1, hi, depth, max_depth)

alpha_beta_min(board, alpha, beta, depth, max_depth) ==
    IF depth = max_depth THEN Leaf(board)
    ELSE Let(generate_moves(board), LAMBDA g :
           IF ~g.ok THEN Aborted(board, 1)
           ELSE IF g.moves = <<>> THEN Leaf(board)
           ELSE alpha_beta_return(
                  alpha_beta_min_loop(Searching(board, alpha, beta), g.moves, 1, Len(g.moves),
                                      depth, max_depth)))

alpha_beta_max(board, alpha, beta, depth, max_depth) ==
    IF depth = max_depth THEN Leaf(board)
    ELSE Let(generate_moves(board), LAMBDA g :
           IF ~g.ok THEN Aborted(board, 1)
           ELSE IF g.moves = <<>> THEN Leaf(board)
           ELSE alpha_beta_return(
                  alpha_beta_max_loop(Searching(board, alpha, beta), g.moves, 1, Len(g.moves),
                                      depth, max_depth)))

AlphaBetaEvaluator_evaluate_keeping_line(board, max_depth) ==
    minimax(board, 0, max_depth, IF board.side = White THEN 1 ELSE -1)

AlphaBetaEvaluator_evaluate(board, max_depth) ==
    IF board.side = White
    THEN alpha_beta_max(board, -FloatMax, FloatMax, 0, max_depth)
    ELSE alpha_beta_min(board, -FloatMax, FloatMax, 0, max_depth)

\* ---------------------------------------------------------------- best_move

\* evaluator.evaluate(board) through the DynamicEvaluator trait object.
evaluate(evaluator, board, max_depth) ==
    IF evaluator = "Minimax" THEN MinimaxEvaluator_evaluate(board, max_depth)
    ELSE AlphaBetaEvaluator_evaluate(board, max_depth)

\* board.is_game_over(); ok is FALSE when generate_moves panics.
is_game_over(board) ==
    [over |-> generate_moves(board).moves = <<>>, ok |-> generate_moves(board).ok]

\* The locals of best_move at the start of its loop.
Choosing(board) ==
    [board |-> board, ok |-> TRUE, best_move |-> None, best_move_evaluation |-> -FloatMax]

\* best_move_step keeping the move if its evaluation is greater than or equal
\* to the best so far.
best_move_step_keeping_the_last(s, m, evaluator, max_depth, neg) ==
    Let(apply_move(s.board, m), LAMBDA a :
      IF ~a.ok THEN [s EXCEPT !.board = a.board, !.ok = FALSE]
      ELSE
        Let(evaluate(evaluator, a.board, max_depth), LAMBDA e :
          IF ~e.ok THEN [s EXCEPT !.board = e.board, !.ok = FALSE]
          ELSE
            Let(revert_move(e.board, m), LAMBDA r :
              IF ~r.ok THEN [s EXCEPT !.board = r.board, !.ok = FALSE]
              ELSE IF e.value * neg >= s.best_move_evaluation
              THEN [s EXCEPT !.board = r.board, !.best_move = Some(m),
                             !.best_move_evaluation = e.value * neg]
              ELSE [s EXCEPT !.board = r.board])))

\* One iteration of best_move's loop: apply, evaluate, revert, keep the
\* move if its evaluation is greater than the best so far.
best_move_step(s, m, evaluator, max_depth, neg) ==
    Let(apply_move(s.board, m), LAMBDA a :
      IF ~a.ok THEN [s EXCEPT !.board = a.board, !.ok = FALSE]
      ELSE
        Let(evaluate(evaluator, a.board, max_depth), LAMBDA e :
          IF ~e.ok THEN [s EXCEPT !.board = e.board, !.ok = FALSE]
          ELSE
            Let(revert_move(e.board, m), LAMBDA r :
              IF ~r.ok THEN [s EXCEPT !.board = r.board, !.ok = FALSE]
              ELSE IF e.value * neg > s.best_move_evaluation
              THEN [s EXCEPT !.board = r.board, !.best_move = Some(m),
                             !.best_move_evaluation = e.value * neg]
              ELSE [s EXCEPT !.board = r.board])))

\* for move_ in moves.iter(): the iterations for moves[lo..hi] in order, none
\* of them run once a call has panicked (the range is halved to keep the
\* evaluation shallow).
RECURSIVE best_move_loop(_, _, _, _, _, _, _)
best_move_loop(s, moves, lo, hi, evaluator, max_depth, neg) ==
    IF ~s.ok THEN s
    ELSE IF lo = hi THEN best_move_step(s, moves[lo], evaluator, max_depth, neg)
    ELSE best_move_loop(
             best_move_loop(s, moves, lo, (lo + hi) \div 2, evaluator, max_depth, neg),
             moves, (lo + hi) \div 2 + 1, hi, evaluator, max_depth, neg)

\* best_move: the Option<Move> returned, the board left behind, and whether
\* the call returned at all.
best_move(board, evaluator, max_depth) ==
    IF ~is_game_over(board).ok THEN [move |-> None, board |-> board, ok |-> FALSE]
    ELSE IF is_game_over(board).over THEN [move |-> None, board |-> board, ok |-> TRUE]
    ELSE Let(best_move_loop(Choosing(board), generate_moves(board).moves,
                            1, Len(generate_moves(board).moves), evaluator, max_depth,
                            IF board.side = White THEN 1 ELSE -1),
             LAMBDA s : [move |-> s.best_move, board |-> s.board, ok |-> s.ok])

\* ---------------------------------------------------------- starting boards

create_populated ==
    LET pawns == [i \in 1..16 |->
                    IF i % 2 = 1 THEN piece_on(colored(Pawn, White), (i - 1) \div 2, 1)
                                 ELSE piece_on(colored(Pawn, Black), (i - 2) \div 2, 6)]
        others == << piece_on(colored(Rook, White), 0, 0), piece_on(colored(Rook, White), 7, 0),
                     piece_on(colored(Rook, Black), 0, 7), piece_on(colored(Rook, Black), 7, 7),
                     piece_on(colored(Knight, White), 1, 0), piece_on(colored(Knight, White), 6, 0),
                     piece_on(colored(Knight, Black), 1, 7), piece_on(colored(Knight, Black), 6, 7),
                     piece_on(colored(Bishop, White), 2, 0), piece_on(colored(Bishop, White), 5, 0),
                     piece_on(colored(Bishop, Black), 2, 7), piece_on(colored(Bishop, Black), 5, 7),
                     piece_on(colored(Queen, White), 3, 0), piece_on(colored(King, White), 4, 0),
                     piece_on(colored(Queen, Black), 3, 7), piece_on(colored(King, Black), 4, 7) >>
    IN [add_pieces(create_empty, pawns \o others) EXCEPT !.castle_rights = BoardCastleRights_all]

\* The board of test board_apply_and_revert_move_with_capture.
capture_board ==
    add_pieces(create_empty,
        << piece_on(colored(Pawn, White), 0, 1), piece_on(colored(Pawn, Black), 1, 2) >>)

\* The board of test board_apply_and_revert_move_with_capture_and_promotion.
promotion_board ==
    add_pieces(create_empty,
        << piece_on(colored(Pawn, White), 1, 6), piece_on(colored(Pawn, Black), 2, 7) >>)

\* The board of test board_apply_and_revert_king_side_castling.
white_castle_board ==
    [add_pieces(create_empty,
        << piece_on(colored(King, White), 4, 0), piece_on(colored(Rook, White), 0, 0),
           piece_on(colored(Rook, White), 7, 0) >>)
     EXCEPT !.castle_rights = BoardCastleRights_all]

\* The board of test board_apply_and_revert_queen_side_castling.
black_castle_board ==
    [add_pieces(create_empty,
        << piece_on(colored(King, Black), 4, 7), piece_on(colored(Rook, Black), 0, 7),
           piece_on(colored(Rook, Black), 7, 7) >>)
     EXCEPT !.castle_rights = BoardCastleRights_all, !.side = Black]

\* The board of test pawn_moves_en_passant, built with add_pieces.
en_passant_board ==
    [add_pieces(create_empty,
        << piece_on(colored(Pawn, White), 1, 4), piece_on(colored(Pawn, Black), 2, 4),
           piece_on(colored(Pawn, Black), 4, 3), piece_on(colored(Pawn, White), 5, 3),
           piece_on(colored(Pawn, Black), 7, 3) >>)
     EXCEPT !.en_passant = Some(at(2, 5))]

\* The board of test board_apply_and_revert_castle_rights_loss_through_capture.
rights_capture_board ==
    [add_pieces(create_empty,
        << piece_on(colored(Rook, Black), 0, 7), piece_on(colored(King, Black), 4, 7),
           piece_on(colored(Rook, Black), 7, 7), piece_on(colored(Pawn, White), 1, 6),
           piece_on(colored(Pawn, White), 6, 6) >>)
     EXCEPT !.castle_rights = BoardCastleRights_all]

\* A White pawn on its home square with a Black queen ahead of it on the same
\* file, built with add_pieces like the boards of the tests.
queen_board ==
    add_pieces(create_empty,
        << piece_on(colored(Pawn, White), 0, 1), piece_on(colored(Queen, Black), 0, 4) >>)

\* A king and its queen-side rook for each color, built with add_pieces like
\* the boards of the castle tests; White holds the queen-side right only.
corner_board ==
    [add_pieces(create_empty,
        << piece_on(colored(Rook, White), 0, 0), piece_on(colored(King, White), 4, 0),
           piece_on(colored(Rook, Black), 0, 7), piece_on(colored(King, Black), 4, 7) >>)
     EXCEPT !.castle_rights =
                [white |-> [king_side |-> FALSE, queen_side |-> TRUE],
                 black |-> ColorCastleRights_all]]

\* A White king next to the squares a Black pawn, rook and knight attack,
\* built with add_pieces like the boards of the is_check tests.
check_board ==
    add_pieces(create_empty,
        << piece_on(colored(King, White), 4, 3), piece_on(colored(Pawn, Black), 2, 5),
           piece_on(colored(Rook, Black), 7, 4), piece_on(colored(Knight, Black), 6, 1) >>)

\* The board of test is_check_by_knight, built with add_pieces.
knight_check_board ==
    add_pieces(create_empty,
        << piece_on(colored(Knight, White), 2, 5), piece_on(colored(King, Black), 4, 6) >>)

\* The first board of test is_check_by_pawn, built with add_pieces.
pawn_check_board ==
    add_pieces(create_empty,
        << piece_on(colored(Pawn, White), 0, 3), piece_on(colored(King, Black), 1, 4) >>)

\* The third board of test is_check_by_pawn, built with add_pieces.
passed_pawn_board ==
    add_pieces(create_empty,
        << piece_on(colored(Pawn, White), 0, 5), piece_on(colored(King, Black), 1, 4) >>)

\* A White knight between its king and a Black rook on the king's file,
\* built with add_pieces like the boards of the is_check tests.
pin_board ==
    add_pieces(create_empty,
        << piece_on(colored(King, White), 4, 0), piece_on(colored(Knight, White), 4, 1),
           piece_on(colored(Rook, Black), 4, 7) >>)

\* A White knight and pawn against a Black bishop that can take either once
\* the pawn has moved, built with add_pieces like the boards of the
\* evaluator tests.
knight_pawn_board ==
    add_pieces(create_empty,
        << piece_on(colored(Knight, White), 6, 0), piece_on(colored(Bishop, Black), 2, 4),
           piece_on(colored(Pawn, White), 0, 1) >>)

\* The first board of dynamic_evaluator_basic and static_evaluation_basic,
\* built with add_pieces: just a White pawn.
lone_pawn_board ==
    add_pieces(create_empty, << piece_on(colored(Pawn, White), 0, 1) >>)

\* A Black pawn one push away from standing beside the square a White pawn
\* reaches by its double push, Black to move, built with add_pieces like the
\* boards of the pawn tests.
double_push_board ==
    [add_pieces(create_empty,
        << piece_on(colored(Pawn, White), 0, 1), piece_on(colored(Pawn, Black), 1, 4) >>)
     EXCEPT !.side = Black]

\* A White king in the corner and a White pawn on file 0, with a Black knight
\* on the far file one rank below the squares their probes to the left ask
\* for, built with add_pieces like the boards of the is_check tests.
edge_board ==
    add_pieces(create_empty,
        << piece_on(colored(King, White), 0, 0), piece_on(colored(Pawn, White), 0, 1),
           piece_on(colored(Knight, Black), 7, 1) >>)

\* create_populated after apply_move of the double pushes (4,1)->(4,3) of
\* White and (4,6)->(4,4) of Black, as generate_moves builds them.
opened_board ==
    Let(apply_move(create_populated,
                   from_to_en_passant(create_populated, at(4, 1), at(4, 3), at(4, 2))).board,
        LAMBDA b1 :
            apply_move(b1, from_to_en_passant(b1, at(4, 6), at(4, 4), at(4, 5))).board)

\* The board after apply_move of the move generate_moves builds for a piece
\* going to an empty square.
Pushed(b, kind, from, to) == apply_move(b, from_to(b, kind, from, to)).board

\* The board after apply_move of the capture generate_moves builds for a
\* piece taking the piece on a square, and revert_move of that same move.
TakenBack(b, kind, from, to) ==
    Let(from_to_capture(b, kind, from, to,
                        [piece |-> Unwrap(piece_at(b, to)), square |-> to]), LAMBDA m :
        revert_move(apply_move(b, m).board, m).board)

\* create_populated after White's (4,1)->(4,3), Black's (3,6)->(3,5), the
\* White queen's (3,0)->(6,3), the Black bishop's capture of it applied and
\* reverted, Black's (0,6)->(0,5), the queen's (6,3)->(3,6), the Black
\* queen's capture of it applied and reverted, and Black's (1,6)->(1,5).
hunted_board ==
    Let(apply_move(create_populated,
                   from_to_en_passant(create_populated, at(4, 1), at(4, 3), at(4, 2))).board,
        LAMBDA b1 :
    Let(Pushed(Pushed(b1, Pawn, at(3, 6), at(3, 5)), Queen, at(3, 0), at(6, 3)), LAMBDA b3 :
    Let(Pushed(Pushed(TakenBack(b3, Bishop, at(2, 7), at(6, 3)), Pawn, at(0, 6), at(0, 5)),
               Queen, at(6, 3), at(3, 6)), LAMBDA b6 :
        Pushed(TakenBack(b6, Queen, at(3, 7), at(3, 6)), Pawn, at(1, 6), at(1, 5)))))


\* The second board of test pawn_moves_promotion, built with add_pieces.
black_promotion_board ==
    [add_pieces(create_empty,
        << piece_on(colored(Pawn, Black), 1, 1), piece_on(colored(Pawn, White), 2, 0) >>)
     EXCEPT !.side = Black]

\* White's king and king-side rook with the king_side right, and a Black
\* pawn to answer with, built with add_pieces like the boards of the castle
\* tests.
kingside_board ==
    [add_pieces(create_empty,
        << piece_on(colored(King, White), 4, 0), piece_on(colored(Rook, White), 7, 0),
           piece_on(colored(Pawn, Black), 0, 6) >>)
     EXCEPT !.castle_rights =
                [white |-> [king_side |-> TRUE, queen_side |-> FALSE],
                 black |-> ColorCastleRights_none]]

StartBoards ==
    << create_populated, capture_board, promotion_board, white_castle_board,
       black_castle_board, en_passant_board, rights_capture_board, queen_board,
       corner_board, check_board, black_promotion_board, kingside_board,
       knight_check_board, pawn_check_board, passed_pawn_board, pin_board,
       knight_pawn_board, lone_pawn_board, double_push_board, edge_board,
       opened_board, hunted_board >>

\* The places in StartBoards of create_populated and of the boards reached
\* from it (opened_board, hunted_board).
PopulatedStarts == {1, 21, 22}

\* The places in StartBoards of the boards that calls have been made on
\* (opened_board, hunted_board).
ReachedStarts == {21, 22}
PopulatedBoards == {StartBoards[i] : i \in PopulatedStarts}

\* The places in StartBoards of the boards on which kings and rooks of both
\* colors move freely (corner_board, check_board, knight_check_board,
\* pawn_check_board, passed_pawn_board, pin_board, edge_board), and those
\* boards.
PiecesStarts == {9, 10, 13, 14, 15, 16, 20}
PiecesBoards == {StartBoards[i] : i \in PiecesStarts}

\* ------------------------------------------------------------ state machine

VARIABLES
    start,     \* which starting board this run began from
    board,     \* the one Board shared by every call
    stack,     \* the MoveUnmove values applied and not yet reverted
    status,    \* "ok", or "panicked" once an assertion or unwrap has failed
    last,      \* the operation that produced this state
    result,    \* the outcome of the last evaluate call, if that was the last call
    chosen,    \* what the last best_move call returned, if that was the last call
    checked    \* what the last is_check call returned, if that was the last call

vars == <<start, board, stack, status, last, result, chosen, checked>>

PlyBound ==
    IF start \in PopulatedStarts THEN MaxPlyPopulated
    ELSE IF start \in PiecesStarts THEN MaxPlyPieces
    ELSE MaxPly
SearchBound == PlyBound - Len(stack)

\* A run begins on one of the starting boards at the given places, with
\* nothing applied and no call made.
Begun(starts) ==
    /\ start \in starts
    /\ board = StartBoards[start]
    /\ stack = <<>>
    /\ status = "ok"
    /\ last = [op |-> "init", mu |-> None]
    /\ result = None
    /\ chosen = None
    /\ checked = None

\* The runs from the boards as their constructors leave them.
Init == Begun((1..Len(StartBoards)) \ ReachedStarts)

\* The runs from create_populated and from the boards reached from it.
ReachedInit == Begun(PopulatedStarts)

MoveUnmove(board_before, move_) == [board_before |-> board_before, move_ |-> move_]

\* The variables after a call that leaves board r.board, panicked unless r.ok.
Returned(r) ==
    /\ board' = r.board
    /\ status' = IF r.ok THEN "ok" ELSE "panicked"

\* MoveUnmove::apply_move on a move of generate_moves(board).
ApplyMove ==
    /\ status = "ok"
    /\ Len(stack) < PlyBound
    /\ generate_moves(board).ok
    /\ \E m \in Range(generate_moves(board).moves) :
         /\ Returned(apply_move(board, m))
         /\ stack' = Append(stack, MoveUnmove(board, m))
         /\ last' = [op |-> "apply", mu |-> Some(MoveUnmove(board, m))]
    /\ result' = None
    /\ chosen' = None
    /\ checked' = None
    /\ UNCHANGED start

\* MoveUnmove::revert_move of the most recently applied move.
RevertMove ==
    /\ status = "ok"
    /\ stack /= <<>>
    /\ Returned(revert_move(board, stack[Len(stack)].move_))
    /\ stack' = SubSeq(stack, 1, Len(stack) - 1)
    /\ last' = [op |-> "revert", mu |-> Some(stack[Len(stack)])]
    /\ result' = None
    /\ chosen' = None
    /\ checked' = None
    /\ UNCHANGED start

\* Board::apply_move of a move generated against the board before the last
\* applied move, whose en-passant target differs from the current one.
ApplyStaleMove ==
    /\ status = "ok"
    /\ stack /= <<>>
    /\ generate_moves(stack[Len(stack)].board_before).ok
    /\ \E m \in Range(generate_moves(stack[Len(stack)].board_before).moves) :
         /\ m.en_passant_before /= board.en_passant
         /\ Returned(apply_move(board, m))
         /\ last' = [op |-> "apply_stale", mu |-> Some(MoveUnmove(board, m))]
    /\ result' = None
    /\ chosen' = None
    /\ checked' = None
    /\ UNCHANGED <<start, stack>>

\* The ways a Move handed to apply_move can disagree with the board: its
\* capture records another kind or color than the piece on the capture
\* square, or a piece on an empty square; its from is an empty square; its
\* piece_kind is not the kind of the piece on from.
Tampers == {"capture_kind", "capture_color", "capture_absent", "from", "piece_kind"}

TamperApplies(m, tamper) ==
    IF tamper \in {"capture_kind", "capture_color"} THEN IsSome(m.capture)
    ELSE IF tamper \in {"capture_absent", "from"} THEN IsNone(m.capture) /\ IsNone(m.castle)
    ELSE TRUE

Tampered(board_, m, tamper) ==
    CASE tamper = "capture_kind" ->
           [m EXCEPT !.capture = Some([Unwrap(@) EXCEPT !.piece.kind =
                                          IF @ = Queen THEN Rook ELSE Queen])]
      [] tamper = "capture_color" ->
           [m EXCEPT !.capture = Some([Unwrap(@) EXCEPT !.piece.color = switch(@)])]
      [] tamper = "capture_absent" ->
           [m EXCEPT !.capture = Some([piece |-> colored(Pawn, switch(board_.side)),
                                       square |-> m.to])]
      [] tamper = "from" -> [m EXCEPT !.from = m.to]
      [] tamper = "piece_kind" ->
           [m EXCEPT !.piece_kind = IF @ = Queen THEN Rook ELSE Queen]

\* Board::apply_move called with a Move that is a move of generate_moves(board)
\* changed in one of the ways of Tampers.
ApplyTamperedMove ==
    /\ status = "ok"
    /\ Len(stack) < PlyBound
    /\ generate_moves(board).ok
    /\ \E m \in Range(generate_moves(board).moves) : \E tamper \in Tampers :
         /\ TamperApplies(m, tamper)
         /\ Returned(apply_move(board, Tampered(board, m, tamper)))
         /\ last' = [op |-> "apply_tampered",
                     mu |-> Some(MoveUnmove(board, Tampered(board, m, tamper)))]
    /\ result' = None
    /\ chosen' = None
    /\ checked' = None
    /\ UNCHANGED <<start, stack>>

Outcome(evaluator, max_depth, before, r) ==
    [evaluator |-> evaluator, max_depth |-> max_depth, board_before |-> before,
     value |-> r.value, line |-> r.line, nodes |-> r.nodes, ok |-> r.ok]

Evaluated(evaluator, max_depth, r) ==
    /\ Returned(r)
    /\ result' = Some(Outcome(evaluator, max_depth, board, r))
    /\ chosen' = None
    /\ checked' = None
    /\ last' = [op |-> "evaluate", mu |-> None]

\* evaluate of a freshly created MinimaxEvaluator.
EvaluateMinimax ==
    /\ status = "ok"
    /\ \E d \in 0..SearchBound : Evaluated("Minimax", d, MinimaxEvaluator_evaluate(board, d))
    /\ UNCHANGED <<start, stack>>

\* evaluate of a freshly created AlphaBetaEvaluator.
EvaluateAlphaBeta ==
    /\ status = "ok"
    /\ \E d \in 0..SearchBound :
         Evaluated("AlphaBeta", d, AlphaBetaEvaluator_evaluate(board, d))
    /\ UNCHANGED <<start, stack>>

\* best_move on a starting board with a freshly created evaluator of either
\* kind.
BestMove ==
    /\ status = "ok"
    /\ stack = <<>>
    /\ SearchBound > 0
    /\ \E evaluator \in {"Minimax", "AlphaBeta"}, d \in 0..(SearchBound - 1) :
         \E r \in {best_move(board, evaluator, d)} :
             /\ Returned(r)
             /\ chosen' = Some([evaluator |-> evaluator, max_depth |-> d,
                                board_before |-> board, move |-> r.move])
    /\ last' = [op |-> "best_move", mu |-> None]
    /\ result' = None
    /\ checked' = None
    /\ UNCHANGED <<start, stack>>

\* is_check of either color on the current board.
IsCheck ==
    /\ status = "ok"
    /\ \E color \in Colors :
         checked' = Some([color |-> color, board_before |-> board,
                          check |-> is_check(board, color)])
    /\ last' = [op |-> "is_check", mu |-> None]
    /\ result' = None
    /\ chosen' = None
    /\ UNCHANGED <<start, board, stack, status>>

Next ==
    \/ BestMove
    \/ IsCheck
    \/ ApplyMove
    \/ RevertMove
    \/ ApplyStaleMove
    \/ EvaluateMinimax
    \/ EvaluateAlphaBeta

Spec == Init /\ [][Next]_vars

\* The runs that only apply and revert moves: what the claims about Board and
\* move generation are checked under.
MovesNext ==
    \/ ApplyMove
    \/ RevertMove
    \/ ApplyStaleMove

MovesSpec == Init /\ [][MovesNext]_vars

\* The runs that apply and revert moves and call AlphaBetaEvaluator in
\* between.
AlphaBetaNext ==
    \/ ApplyMove
    \/ RevertMove
    \/ EvaluateAlphaBeta

AlphaBetaSpec == Init /\ [][AlphaBetaNext]_vars

\* The runs that apply and revert moves from create_populated and from the
\* boards reached from it.
ReachedNext ==
    \/ ApplyMove
    \/ RevertMove

ReachedSpec == ReachedInit /\ [][ReachedNext]_vars

\* The runs that apply and revert moves, ask best_move for a move and call
\* MinimaxEvaluator in between.
ChoiceNext ==
    \/ ApplyMove
    \/ RevertMove
    \/ BestMove
    \/ EvaluateMinimax

ChoiceSpec == Init /\ [][ChoiceNext]_vars

AppliedTampered == last.op = "apply_tampered"

\* The runs that apply and revert moves and end by handing apply_move a move
\* that does not match the board.
TamperNext ==
    \/ ~AppliedTampered /\ ApplyMove
    \/ ~AppliedTampered /\ RevertMove
    \/ ~AppliedTampered /\ ApplyTamperedMove

TamperSpec == Init /\ [][TamperNext]_vars

\* The runs that apply and revert moves and ask is_check in between.
CheckNext ==
    \/ ApplyMove
    \/ RevertMove
    \/ IsCheck

CheckSpec == Init /\ [][CheckNext]_vars

\* ------------------------------------------------------------------ claims

Squares == {at(x, y) : x, y \in 0..(BoardSize - 1)}

\* The (piece, square) pairs a board holds: the occupied entries of its
\* piece_list, which semantic_eq, generate_moves, king_square and
\* static_evaluation read.
Pieces(b) ==
    {Unwrap(b.piece_list[i]) : i \in {j \in 0..(PieceSlots - 1) : IsSome(b.piece_list[j])}}

\* The same piece on every square, as piece_at reports it.
SamePieceAt(a, b) == \A s \in Squares : piece_at(a, s) = piece_at(b, s)

LastMove == Unwrap(last.mu).move_
LastBefore == Unwrap(last.mu).board_before
Applied == last.op = "apply"
Reverted == last.op = "revert"

RoundTrips(b, m) ==
    Let(apply_move(b, m), LAMBDA a :
      /\ a.ok
      /\ Let(revert_move(a.board, m), LAMBDA r : r.ok /\ semantic_eq(r.board, b)))

\* C1: for the current board B and every move M of generate_moves(B),
\* apply_move(M) followed by revert_move(M) completes and yields a board
\* semantically equal to B.
C1_RoundTrip ==
    status = "ok" /\ generate_moves(board).ok =>
        \A m \in Range(generate_moves(board).moves) : RoundTrips(board, m)

\* C2: every apply of a generated move and every revert in reverse order
\* completes, and a revert leaves a board semantically equal to the board that
\* existed before the move it takes back was applied.
C2_StackDiscipline ==
    Applied \/ Reverted =>
        /\ status = "ok"
        /\ Reverted => semantic_eq(board, LastBefore)

\* C3: when an evaluator returns, the board is semantically equal to the board
\* it was handed.
C3_EvaluateRestoresBoard ==
    last.op = "evaluate" =>
        /\ Unwrap(result).ok
        /\ semantic_eq(board, Unwrap(result).board_before)

OtherEvaluator(o) ==
    IF o.evaluator = "Minimax"
    THEN AlphaBetaEvaluator_evaluate(o.board_before, o.max_depth)
    ELSE MinimaxEvaluator_evaluate(o.board_before, o.max_depth)

\* C4: on the same board and max_depth AlphaBetaEvaluator::evaluate and
\* MinimaxEvaluator::evaluate return the same value: when one of them has
\* returned a value, so does the other, and the values are equal.
C4_AlphaBetaEqualsMinimax ==
    IsSome(result) /\ Unwrap(result).ok =>
        /\ OtherEvaluator(Unwrap(result)).ok
        /\ OtherEvaluator(Unwrap(result)).value = Unwrap(result).value

\* The White-positive depth-limited minimax value of board b, over the boards
\* apply_move produces; ok is FALSE where a move cannot be generated or applied.
RECURSIVE minimax_value(_, _)
child_values(b, d) ==
    {IF apply_move(b, m).ok THEN minimax_value(apply_move(b, m).board, d - 1)
     ELSE [value |-> 0, ok |-> FALSE] : m \in Range(generate_moves(b).moves)}

minimax_value(b, d) ==
    IF d = 0 THEN [value |-> static_evaluation(b), ok |-> TRUE]
    ELSE IF ~generate_moves(b).ok THEN [value |-> 0, ok |-> FALSE]
    ELSE IF generate_moves(b).moves = <<>> THEN [value |-> static_evaluation(b), ok |-> TRUE]
    ELSE IF \E c \in child_values(b, d) : ~c.ok THEN [value |-> 0, ok |-> FALSE]
    ELSE IF b.side = White
    THEN CHOOSE c \in child_values(b, d) : \A e \in child_values(b, d) : c.value >= e.value
    ELSE CHOOSE c \in child_values(b, d) : \A e \in child_values(b, d) : c.value <= e.value

\* C5: MinimaxEvaluator::evaluate returns, and its value is the White-positive
\* depth-limited minimax value of the board it was handed.
C5_MinimaxValue ==
    IsSome(result) /\ Unwrap(result).evaluator = "Minimax" =>
        /\ Unwrap(result).ok
        /\ minimax_value(Unwrap(result).board_before, Unwrap(result).max_depth).ok
        /\ Unwrap(result).value
             = minimax_value(Unwrap(result).board_before, Unwrap(result).max_depth).value

\* C6: no two pieces of the board stand on the same square, and piece_at(s) is
\* Some exactly for the squares on which a piece of the board stands.
C6_OnePiecePerSquare ==
    status = "ok" =>
        /\ \A e, f \in Pieces(board) : e.square = f.square => e = f
        /\ \A s \in Squares :
             IsSome(piece_at(board, s)) <=> (\E e \in Pieces(board) : e.square = s)

Mover == [piece |-> Unwrap(piece_at(LastBefore, LastMove.from)), square |-> LastMove.from]

\* C7: applying a capturing move (promotions aside) completes, removes exactly
\* M.capture, puts the mover on M.to, empties M.from, leaves every other piece
\* where it was and switches the side; reverting it completes and puts both
\* pieces back.
C7_CaptureEffects ==
    (Applied \/ Reverted) /\ IsSome(LastMove.capture) /\ IsNone(LastMove.promotion) =>
        /\ status = "ok"
        /\ Applied =>
             /\ Pieces(board) = (Pieces(LastBefore) \ {Unwrap(LastMove.capture), Mover})
                                \cup {[piece |-> Mover.piece, square |-> LastMove.to]}
             /\ piece_at(board, LastMove.to) = Some(Mover.piece)
             /\ IsNone(piece_at(board, LastMove.from))
             /\ board.side = switch(LastBefore.side)
        /\ Reverted =>
             /\ Pieces(board) = Pieces(LastBefore)
             /\ SamePieceAt(board, LastBefore)
             /\ board.side = LastBefore.side

\* C8: applying a promotion move made by color c completes and leaves a piece
\* of kind M.promotion and color c on M.to and none on M.from; reverting it
\* completes and restores the board, with a Pawn of color c on M.from.
C8_Promotion ==
    (Applied \/ Reverted) /\ IsSome(LastMove.promotion) =>
        /\ status = "ok"
        /\ Applied =>
             /\ piece_at(board, LastMove.to)
                  = Some(colored(Unwrap(LastMove.promotion), LastBefore.side))
             /\ IsNone(piece_at(board, LastMove.from))
        /\ Reverted =>
             /\ piece_at(board, LastMove.from) = Some(colored(Pawn, LastBefore.side))
             /\ semantic_eq(board, LastBefore)
             /\ SamePieceAt(board, LastBefore)

\* The pieces of board b after color c has castled on the given side.
CastledPieces(b, c, castle) ==
    LET r == back_rank(c)
        king == piece_on(colored(King, c), 4, r)
        rook == piece_on(colored(Rook, c), IF castle = KingSide THEN 7 ELSE 0, r)
    IN (Pieces(b) \ {king, rook})
       \cup {piece_on(colored(King, c), IF castle = KingSide THEN 6 ELSE 2, r),
             piece_on(colored(Rook, c), IF castle = KingSide THEN 5 ELSE 3, r)}

\* C9: applying a castle move completes in one ply: king and rook stand on
\* their castled squares, every other piece is unmoved, the mover's rights
\* are cleared, the opponent's kept, en passant is cleared and the side has
\* switched once; reverting it restores pieces, rights and side.
C9_Castle ==
    (Applied \/ Reverted) /\ IsSome(LastMove.castle) =>
        /\ status = "ok"
        /\ Applied =>
             /\ Pieces(board)
                  = CastledPieces(LastBefore, LastBefore.side, Unwrap(LastMove.castle))
             /\ king_square(board, LastBefore.side) = Some(LastMove.to)
             /\ get_rights(board.castle_rights, LastBefore.side) = ColorCastleRights_none
             /\ get_rights(board.castle_rights, switch(LastBefore.side))
                  = get_rights(LastBefore.castle_rights, switch(LastBefore.side))
             /\ IsNone(board.en_passant)
             /\ board.side = switch(LastBefore.side)
        /\ Reverted =>
             /\ Pieces(board) = Pieces(LastBefore)
             /\ SamePieceAt(board, LastBefore)
             /\ board.castle_rights = LastBefore.castle_rights
             /\ board.side = LastBefore.side

\* Whether a move of the piece on `from` by color c takes c's right for `side`.
StripsRight(kind, from, c, side) ==
    \/ kind = King
    \/ kind = Rook /\ from = at(IF side = KingSide THEN 7 ELSE 0, back_rank(c))

ColorRightsAfter(before, kind, from, c, mover) ==
    [king_side |-> before.king_side /\ ~(mover /\ StripsRight(kind, from, c, KingSide)),
     queen_side |-> before.queen_side /\ ~(mover /\ StripsRight(kind, from, c, QueenSide))]

\* C10: after a completed apply_move(M) by side c with no capture, c's rights
\* are both false if M moved a King, c's king_side (queen_side) right alone is
\* cleared if M moved a Rook from file 7 (file 0) of c's back rank, and every
\* other right has the value of M.castle_rights_before.
C10_CastleRightsAfterMove ==
    Applied /\ status = "ok" /\ IsNone(LastMove.capture) =>
        board.castle_rights =
            [white |-> ColorRightsAfter(LastMove.castle_rights_before.white, Mover.piece.kind,
                                        LastMove.from, White, LastBefore.side = White),
             black |-> ColorRightsAfter(LastMove.castle_rights_before.black, Mover.piece.kind,
                                        LastMove.from, Black, LastBefore.side = Black)]

\* A Rook has left file 7 of its back rank without capturing: the mover's
\* king_side right went from true to false and its queen_side right stayed true.
C10_RookLeftKingSideCorner ==
    /\ Applied /\ status = "ok" /\ IsNone(LastMove.capture)
    /\ LastMove.piece_kind = Rook
    /\ LastMove.from = at(7, back_rank(LastBefore.side))
    /\ get_rights(LastMove.castle_rights_before, LastBefore.side) = ColorCastleRights_all
    /\ get_rights(board.castle_rights, LastBefore.side)
         = [king_side |-> FALSE, queen_side |-> TRUE]

CastleSides == {KingSide, QueenSide}
Opponent == switch(LastBefore.side)

\* C11: after a completed apply_move(M) that captures, the opponent's
\* king_side right is cleared if the captured piece stood on file 7 of the
\* opponent's back rank, its queen_side right if it stood on file 0, and the
\* opponent's rights are otherwise those it had before the move.
C11_CaptureClearsOpponentRight ==
    Applied /\ status = "ok" /\ IsSome(LastMove.capture) =>
        get_rights(board.castle_rights, Opponent) =
            [king_side |-> get_rights(LastBefore.castle_rights, Opponent).king_side
                           /\ Unwrap(LastMove.capture).square /= at(7, back_rank(Opponent)),
             queen_side |-> get_rights(LastBefore.castle_rights, Opponent).queen_side
                            /\ Unwrap(LastMove.capture).square /= at(0, back_rank(Opponent))]

\* A capture on file 0 of the opponent's back rank has completed: the
\* opponent held both rights and now holds the king_side right only.
C11_CapturedQueenSideCorner ==
    /\ Applied /\ status = "ok" /\ IsSome(LastMove.capture)
    /\ Unwrap(LastMove.capture).square = at(0, back_rank(Opponent))
    /\ get_rights(LastBefore.castle_rights, Opponent) = ColorCastleRights_all
    /\ get_rights(board.castle_rights, Opponent) = [king_side |-> TRUE, queen_side |-> FALSE]

\* C12: a completed revert_move(M) leaves the castle rights exactly as they
\* were before apply_move(M), right by right.
C12_RevertRestoresRights ==
    Reverted /\ status = "ok" => board.castle_rights = LastBefore.castle_rights

\* The move of a rook from its queen-side corner has been reverted on a board
\* whose mover held the queen_side right only: that right, cleared by the
\* apply, is back, and the king_side right has not been granted.
C12_RevertedCornerRookMove ==
    /\ Reverted /\ status = "ok"
    /\ LastMove.piece_kind = Rook
    /\ LastMove.from = at(0, back_rank(LastBefore.side))
    /\ get_rights(castle_rights_after(LastMove, LastBefore.side), LastBefore.side)
         = ColorCastleRights_none
    /\ get_rights(board.castle_rights, LastBefore.side)
         = [king_side |-> FALSE, queen_side |-> TRUE]

\* C13: apply_move never turns a castle right from false to true: a right
\* that is false before a completed apply_move is false after it.
C13_RightsNeverGranted ==
    [][last'.op = "apply" /\ status' = "ok" =>
          \A c \in Colors, sd \in CastleSides :
              ~test_right(get_rights(board.castle_rights, c), sd)
                  => ~test_right(get_rights(board'.castle_rights, c), sd)]_vars

\* Two moves have been applied: a right the first one took is still false
\* after the second.
C13_LostRightStaysLost ==
    /\ Applied /\ status = "ok" /\ Len(stack) >= 2
    /\ \E c \in Colors, sd \in CastleSides :
         /\ test_right(get_rights(stack[1].board_before.castle_rights, c), sd)
         /\ ~test_right(get_rights(stack[2].board_before.castle_rights, c), sd)
         /\ ~test_right(get_rights(board.castle_rights, c), sd)

\* Whether the piece on M.from went two ranks as a pawn.
DoublePawnPush == Mover.piece.kind = Pawn /\ rank(LastMove.to) - rank(LastMove.from) \in {2, -2}

\* C14: after a completed apply_move(M) of a generated move, board.en_passant
\* is the square the pawn skipped if M is a double pawn push and None
\* otherwise, so a target set by one move is gone after the next move unless
\* that move is a double push too.
C14_EnPassantAfterApply ==
    Applied /\ status = "ok" =>
        board.en_passant =
            IF DoublePawnPush
            THEN Some(at(file(LastMove.from), (rank(LastMove.from) + rank(LastMove.to)) \div 2))
            ELSE None

\* The move before the last was a double pawn push and the last move was
\* not: the target the push set has been cleared.
C14_TargetClearedAfterOnePly ==
    /\ Applied /\ status = "ok" /\ Len(stack) >= 2
    /\ IsSome(stack[Len(stack) - 1].move_.en_passant_after)
    /\ IsSome(LastBefore.en_passant)
    /\ ~DoublePawnPush
    /\ IsNone(board.en_passant)

AppliedStale == last.op = "apply_stale"

\* C15: apply_move(M) with M.en_passant_before different from
\* board.en_passant fails its assertion and leaves the board as it was.
C15_StaleMoveRejected ==
    AppliedStale => status = "panicked" /\ board = LastBefore

\* A move generated before the en-passant target changed has been handed to
\* apply_move while its piece still stood on M.from with M.to free: the call
\* was rejected and the board is untouched.
C15_ApplicableStaleMoveRejected ==
    /\ AppliedStale /\ status = "panicked"
    /\ LastMove.en_passant_before /= LastBefore.en_passant
    /\ IsSome(piece_at(LastBefore, LastMove.from))
    /\ Unwrap(piece_at(LastBefore, LastMove.from)).kind = LastMove.piece_kind
    /\ IsNone(LastMove.capture) /\ ~has_piece_at(LastBefore, LastMove.to)
    /\ board = LastBefore

\* C16: best_move returns without an unwrap failure; it returns None exactly
\* when generate_moves is empty for the side to move, and otherwise Some(m)
\* with m one of the generated moves.
C16_BestMoveIsAGeneratedMove ==
    IsSome(chosen) =>
        /\ status = "ok"
        /\ IsNone(Unwrap(chosen).move)
              <=> generate_moves(Unwrap(chosen).board_before).moves = <<>>
        /\ IsSome(Unwrap(chosen).move)
              => Unwrap(Unwrap(chosen).move)
                   \in Range(generate_moves(Unwrap(chosen).board_before).moves)

Generated == generate_moves(board).moves
PawnToPromotionRank(m) == m.piece_kind = Pawn /\ rank(m.to) = promotion_rank(board.side)

\* C17: among the moves generate_moves returns, every pawn move to the
\* mover's promotion rank carries a promotion, and the moves of one pawn to
\* one square of that rank are exactly four, promoting to Knight, Bishop,
\* Rook and Queen in that order, all with the same capture or all with none.
C17_PromotionExpansion ==
    status = "ok" =>
      Let(generate_moves(board), LAMBDA generated :
        generated.ok =>
          \A m \in Range(generated.moves) :
            PawnToPromotionRank(m) =>
                Let(SelectSeq(generated.moves,
                        LAMBDA n : n.piece_kind = Pawn /\ n.from = m.from /\ n.to = m.to),
                    LAMBDA same :
                    /\ IsSome(m.promotion)
                    /\ [k \in 1..Len(same) |-> same[k].promotion]
                         = <<Some(Knight), Some(Bishop), Some(Rook), Some(Queen)>>
                    /\ \A k \in 1..Len(same) : same[k].capture = m.capture))

\* Black is to move and generate_moves returns promotions of a Black pawn to
\* rank 0, both by a push and by a capture.
C17_BlackPromotesBothWays ==
    /\ status = "ok" /\ generate_moves(board).ok /\ board.side = Black
    /\ \E i, j \in 1..Len(Generated) :
         /\ PawnToPromotionRank(Generated[i]) /\ IsNone(Generated[i].capture)
         /\ PawnToPromotionRank(Generated[j]) /\ IsSome(Generated[j].capture)
         /\ rank(Generated[i].to) = 0 /\ rank(Generated[j].to) = 0

\* The files between the king and the rook of a castle.
BetweenFiles(sd) == IF sd = KingSide THEN {5, 6} ELSE {1, 2, 3}

CastleGenerated(sd) == \E m \in Range(Generated) : m.castle = Some(sd)

HasKing(color) == \E s \in Squares : piece_at(board, s) = Some(colored(King, color))

HoldsRight(color, sd) == test_right(get_rights(board.castle_rights, color), sd)

PathEmpty(color, sd) ==
    \A f \in BetweenFiles(sd) : IsNone(piece_at(board, at(f, back_rank(color))))

\* C18: generate_moves returns the castle move of a side exactly when the
\* color to move has a king on the board, holds that side's right, and every
\* square between king and rook on its back rank is empty; it returns it once.
C18_CastleGating ==
    status = "ok" =>
        Let(generate_moves(board), LAMBDA generated :
            generated.ok =>
                \A sd \in CastleSides :
                    /\ (\E m \in Range(generated.moves) : m.castle = Some(sd)) <=>
                           /\ HasKing(board.side)
                           /\ HoldsRight(board.side, sd)
                           /\ PathEmpty(board.side, sd)
                    /\ Len(SelectSeq(generated.moves, LAMBDA m : m.castle = Some(sd))) <= 1)

\* The color to move has its king, holds only one right, both paths are
\* empty, and only the castle of that right is generated.
C18_OnlyTheHeldSideCastles ==
    /\ status = "ok" /\ generate_moves(board).ok /\ HasKing(board.side)
    /\ \E sd, other \in CastleSides :
         /\ sd /= other
         /\ HoldsRight(board.side, sd) /\ ~HoldsRight(board.side, other)
         /\ PathEmpty(board.side, sd) /\ PathEmpty(board.side, other)
         /\ CastleGenerated(sd) /\ ~CastleGenerated(other)

\* A piece stands between king and rook of a side whose right the color to
\* move holds, and that castle is not generated.
C18_BlockedCastleSuppressed ==
    /\ status = "ok" /\ generate_moves(board).ok /\ HasKing(board.side)
    /\ \E sd \in CastleSides :
         HoldsRight(board.side, sd) /\ ~PathEmpty(board.side, sd) /\ ~CastleGenerated(sd)

\* The squares where square_list holds a king of a color.
KingSquares(color) == {s \in Squares : piece_at(board, s) = Some(colored(King, color))}

Directions(dirs) == {dirs[i] : i \in 1..Len(dirs)}

Steps(s, d, k) == delta(s, k * d[1], k * d[2])

\* The piece on the nearest occupied square of the ray from s in direction d.
FirstOccupied(s, d) ==
    LET hits == {k \in 1..(BoardSize - 1) :
                    is_on_board(Steps(s, d, k)) /\ IsSome(piece_at(board, Steps(s, d, k)))}
    IN IF hits = {} THEN None
       ELSE piece_at(board, Steps(s, d, CHOOSE k \in hits : \A j \in hits : k <= j))

SliderAttacks(color) ==
    \E s \in KingSquares(color) :
        \/ \E d \in Directions(STRAIGHT_DIRECTIONS) :
             FirstOccupied(s, d) \in {Some(colored(Rook, switch(color))),
                                      Some(colored(Queen, switch(color)))}
        \/ \E d \in Directions(DIAGONAL_DIRECTIONS) :
             FirstOccupied(s, d) \in {Some(colored(Bishop, switch(color))),
                                      Some(colored(Queen, switch(color)))}

KnightAttacks(color) ==
    \E s \in KingSquares(color), d \in Directions(KNIGHT_DIRECTIONS) :
        piece_at(board, delta(s, d[1], d[2])) = Some(colored(Knight, switch(color)))

\* An opposing pawn stands one file beside the king and one rank back along
\* its own direction of travel, so that its capture lands on the king.
PawnAttacks(color) ==
    \E s \in KingSquares(color), p \in Squares :
        /\ piece_at(board, p) = Some(colored(Pawn, switch(color)))
        /\ rank(p) + forward(switch(color)) = rank(s)
        /\ file(p) - file(s) \in {-1, 1}

IsChecked == last.op = "is_check"
CheckedColor == Unwrap(checked).color
CheckReported == Unwrap(checked).check

\* C19: is_check(board, color) is true when an opposing rook, bishop or queen
\* is the first piece on a ray of its kind from color's king or an opposing
\* knight is a knight's move away from it, a blocked slider alone does not
\* make it true, and it is false when color has no king on the board.
C19_SliderAndKnightChecks ==
    IsChecked =>
        /\ SliderAttacks(CheckedColor) \/ KnightAttacks(CheckedColor) => CheckReported
        /\ CheckReported =>
               \/ SliderAttacks(CheckedColor)
               \/ KnightAttacks(CheckedColor)
               \/ PawnAttacks(CheckedColor)
        /\ KingSquares(CheckedColor) = {} => ~CheckReported

\* C20: where no slider and no knight attacks the king, is_check(board,
\* color) is true exactly when an opposing pawn attacks the king's square;
\* and a pawn that attacks it always makes is_check true.
C20_PawnChecks ==
    IsChecked =>
        /\ PawnAttacks(CheckedColor) => CheckReported
        /\ ~SliderAttacks(CheckedColor) /\ ~KnightAttacks(CheckedColor) =>
               (CheckReported <=> PawnAttacks(CheckedColor))

\* An opposing pawn stands one file beside the square king_square reports
\* for a color and one rank from it in direction f.
PawnBesideKingSquare(color, f) ==
    /\ IsSome(king_square(board, color))
    /\ \E x_delta \in {-1, 1} :
         piece_at(board, delta(Unwrap(king_square(board, color)), x_delta, f))
           = Some(colored(Pawn, switch(color)))

\* An opposing slider is the first piece on a ray of its kind from square s,
\* or an opposing knight is a knight's move away from s.
PieceHits(s, color) ==
    \/ \E d \in Directions(STRAIGHT_DIRECTIONS) :
         FirstOccupied(s, d) \in {Some(colored(Rook, switch(color))),
                                  Some(colored(Queen, switch(color)))}
    \/ \E d \in Directions(DIAGONAL_DIRECTIONS) :
         FirstOccupied(s, d) \in {Some(colored(Bishop, switch(color))),
                                  Some(colored(Queen, switch(color)))}
    \/ \E d \in Directions(KNIGHT_DIRECTIONS) :
         piece_at(board, delta(s, d[1], d[2])) = Some(colored(Knight, switch(color)))

\* C21 as stated: is_check(board, color) is true if an opposing pawn stands
\* on king + (-1, f) or king + (+1, f), f the forward direction of the color
\* opposite to color.
C21_ProbesOpposingForward ==
    IsChecked =>
        (PawnBesideKingSquare(CheckedColor, forward(switch(CheckedColor))) => CheckReported)

\* C21 amended: is_check(board, color) is true if an opposing pawn stands on
\* king_square(color) + (-1, f) or + (+1, f), f the forward direction of
\* color itself, and a pawn on the squares in the opposing color's forward
\* direction does not by itself make it true.
C21_ProbesOwnForward ==
    IsChecked =>
        /\ PawnBesideKingSquare(CheckedColor, forward(CheckedColor)) => CheckReported
        /\ CheckReported /\ ~PieceHits(Unwrap(king_square(board, CheckedColor)), CheckedColor)
             => PawnBesideKingSquare(CheckedColor, forward(CheckedColor))

\* is_check was asked about a king with an opposing pawn on one of the two
\* squares in the king's own forward direction, and answered true.
C21_PawnInOwnForwardChecks ==
    /\ IsChecked /\ CheckReported
    /\ PawnBesideKingSquare(CheckedColor, forward(CheckedColor))
    /\ ~PieceHits(Unwrap(king_square(board, CheckedColor)), CheckedColor)

\* Move m is a capture of a king of a color.
CapturesKing(m, color) ==
    IsSome(m.capture) /\ Unwrap(m.capture).piece = colored(King, color)

\* Board b, reached by a move of `mover`, has the mover's king attacked
\* according to is_check, the opponent's generated moves include a capture
\* of that king, and a one-ply search of b by either evaluator visits every
\* generated reply and returns the value of the board without that king.
KingLeftAttacked(b, mover) ==
    /\ is_check(b, mover)
    /\ generate_moves(b).ok
    /\ \E j \in 1..Len(generate_moves(b).moves) :
         /\ CapturesKing(generate_moves(b).moves[j], mover)
         /\ apply_move(b, generate_moves(b).moves[j]).ok
         /\ MinimaxEvaluator_evaluate(b, 1).ok
         /\ MinimaxEvaluator_evaluate(b, 1).value
              = static_evaluation(apply_move(b, generate_moves(b).moves[j]).board)
         /\ AlphaBetaEvaluator_evaluate(b, 1).ok
         /\ AlphaBetaEvaluator_evaluate(b, 1).value = MinimaxEvaluator_evaluate(b, 1).value
    /\ MinimaxEvaluator_evaluate(b, 1).nodes = 1 + Len(generate_moves(b).moves)

\* C22: generate_moves does not filter by is_check: on the board with a
\* White knight between the White king and a Black rook, generate_moves
\* returns a move after which is_check is true for the mover, the opponent's
\* moves then include the capture of the king, and the search evaluates it.
C22_ExposingMoveGenerated ==
    status = "ok" /\ board = pin_board =>
        /\ generate_moves(board).ok
        /\ \E i \in 1..Len(Generated) :
             /\ apply_move(board, Generated[i]).ok
             /\ KingLeftAttacked(apply_move(board, Generated[i]).board, board.side)

\* A generated move of a piece other than the king was applied, and is_check
\* then answered true for the color that moved.
C22_MoverLeftInCheck ==
    /\ IsChecked /\ CheckReported
    /\ stack /= <<>>
    /\ stack[Len(stack)].move_.piece_kind /= King
    /\ CheckedColor = stack[Len(stack)].board_before.side
    /\ CheckedColor = switch(board.side)
    /\ stack[Len(stack)].board_before = pin_board

\* The value of the pieces standing on squares lo..hi of the board, by
\* index, as piece_at reports them.
RECURSIVE MaterialBetween(_, _, _)
MaterialBetween(b, lo, hi) ==
    IF lo = hi
    THEN (IF IsSome(b.square_list[lo])
          THEN kind_value(Unwrap(b.piece_list[Unwrap(b.square_list[lo])]).piece.kind)
               * (IF Unwrap(b.piece_list[Unwrap(b.square_list[lo])]).piece.color = White
                  THEN 1 ELSE -1)
          ELSE 0)
    ELSE MaterialBetween(b, lo, (lo + hi) \div 2)
         + MaterialBetween(b, (lo + hi) \div 2 + 1, hi)

Material(b) == MaterialBetween(b, 0, SquareCount - 1)

\* The board with the color of every piece switched.
ColorsSwapped(b) ==
    [b EXCEPT !.piece_list =
        [i \in DOMAIN b.piece_list |->
            IF IsSome(b.piece_list[i])
            THEN Some([Unwrap(b.piece_list[i]) EXCEPT !.piece.color = switch(@)])
            ELSE None]]

\* Some values of the fields static_evaluation is said not to read.
OtherFields ==
    [side : Colors,
     en_passant : {None, Some(at(0, 2)), Some(at(3, 5))},
     castle_rights : {[white |-> ColorCastleRights_all, black |-> ColorCastleRights_none],
                      [white |-> ColorCastleRights_none, black |-> ColorCastleRights_all]}]

\* C23: static_evaluation is the sum over the pieces on the board of the
\* kind's value, positive for White and negative for Black; it is the same
\* whatever the side to move, the en-passant target and the castle rights,
\* and the board with every color switched evaluates to the negated value.
C23_StaticEvaluationIsMaterial ==
    status = "ok" =>
        /\ static_evaluation(board) = Material(board)
        /\ \A f \in OtherFields :
               static_evaluation([board EXCEPT !.side = f.side,
                                               !.en_passant = f.en_passant,
                                               !.castle_rights = f.castle_rights])
                 = static_evaluation(board)
        /\ static_evaluation(ColorsSwapped(board)) = 0 - static_evaluation(board)

\* A capture was applied and left the two colors with different material.
C23_UnbalancedAfterCapture ==
    /\ Applied /\ status = "ok"
    /\ IsSome(Unwrap(last.mu).move_.capture)
    /\ static_evaluation(board) /= 0
    /\ \E s, t \in Squares :
         /\ IsSome(piece_at(board, s)) /\ Unwrap(piece_at(board, s)).color = White
         /\ IsSome(piece_at(board, t)) /\ Unwrap(piece_at(board, t)).color = Black

\* The number of nodes of the move tree of board b cut at depth d: b itself
\* and, below it, the tree of every board a generated move of b leads to; ok
\* is FALSE where a move of the tree cannot be generated or applied.
RECURSIVE tree_nodes(_, _)
RECURSIVE children_nodes(_, _, _, _, _)
children_nodes(b, moves, lo, hi, d) ==
    IF lo = hi
    THEN (IF apply_move(b, moves[lo]).ok
          THEN tree_nodes(apply_move(b, moves[lo]).board, d - 1)
          ELSE [n |-> 0, ok |-> FALSE])
    ELSE [n |-> children_nodes(b, moves, lo, (lo + hi) \div 2, d).n
                + children_nodes(b, moves, (lo + hi) \div 2 + 1, hi, d).n,
          ok |-> children_nodes(b, moves, lo, (lo + hi) \div 2, d).ok
                 /\ children_nodes(b, moves, (lo + hi) \div 2 + 1, hi, d).ok]

tree_nodes(b, d) ==
    IF d = 0 THEN [n |-> 1, ok |-> TRUE]
    ELSE IF ~generate_moves(b).ok THEN [n |-> 1, ok |-> FALSE]
    ELSE IF generate_moves(b).moves = <<>> THEN [n |-> 1, ok |-> TRUE]
    ELSE [n |-> 1 + children_nodes(b, generate_moves(b).moves, 1,
                                   Len(generate_moves(b).moves), d).n,
          ok |-> children_nodes(b, generate_moves(b).moves, 1,
                                Len(generate_moves(b).moves), d).ok]

MinimaxReturned ==
    IsSome(result) /\ Unwrap(result).evaluator = "Minimax" /\ Unwrap(result).ok

\* C24: after evaluate of a freshly created MinimaxEvaluator has returned,
\* node_count is the number of nodes of the move tree of the board cut at
\* max_depth: 1 when max_depth is 0 or no move is generated.
C24_NodeCountIsTreeSize ==
    MinimaxReturned =>
        /\ tree_nodes(Unwrap(result).board_before, Unwrap(result).max_depth).ok
        /\ Unwrap(result).nodes
             = tree_nodes(Unwrap(result).board_before, Unwrap(result).max_depth).n
        /\ Unwrap(result).max_depth = 0 => Unwrap(result).nodes = 1
        /\ generate_moves(Unwrap(result).board_before).moves = <<>> =>
               Unwrap(result).nodes = 1

AlphaBetaReturned ==
    IsSome(result) /\ Unwrap(result).evaluator = "AlphaBeta" /\ Unwrap(result).ok

\* C25: after AlphaBetaEvaluator::evaluate has returned, get_best_line() is
\* the empty line, whatever the board and max_depth.
C25_AlphaBetaLineEmpty ==
    AlphaBetaReturned => Unwrap(result).line = <<>>

\* AlphaBetaEvaluator::evaluate returned from a search that went below the
\* root of a board with moves.
C25_AlphaBetaSearchedMoves ==
    /\ AlphaBetaReturned
    /\ Unwrap(result).max_depth >= 2
    /\ Unwrap(result).nodes > 2
    /\ Unwrap(result).line = <<>>

\* Playing a line from board b: every move must be a generated move of the
\* board the moves before it lead to, and must apply.
RECURSIVE PlayLine(_, _)
PlayLine(b, line) ==
    IF line = <<>> THEN [board |-> b, ok |-> TRUE]
    ELSE IF ~generate_moves(b).ok
            \/ line[1] \notin Range(generate_moves(b).moves)
            \/ ~apply_move(b, line[1]).ok
    THEN [board |-> b, ok |-> FALSE]
    ELSE PlayLine(apply_move(b, line[1]).board, Tail(line))

\* C26: after MinimaxEvaluator::evaluate has returned, get_best_line() can be
\* played move by move from the board, it has at most max_depth moves and
\* fewer only if it ends on a board without moves, and static_evaluation of
\* the board at its end is the value evaluate returned.
C26_BestLineIsPrincipal ==
    MinimaxReturned =>
        /\ Len(Unwrap(result).line) <= Unwrap(result).max_depth
        /\ PlayLine(Unwrap(result).board_before, Unwrap(result).line).ok
        /\ static_evaluation(PlayLine(Unwrap(result).board_before, Unwrap(result).line).board)
             = Unwrap(result).value
        /\ Len(Unwrap(result).line) < Unwrap(result).max_depth =>
             generate_moves(PlayLine(Unwrap(result).board_before,
                                     Unwrap(result).line).board).moves = <<>>

\* The pieces standing on squares lo..hi of board b, by index, each with the
\* square it stands on.
RECURSIVE StandingBetween(_, _, _)
StandingBetween(b, lo, hi) ==
    IF lo = hi
    THEN (IF IsSome(b.square_list[lo])
          THEN << [piece |-> Unwrap(b.piece_list[Unwrap(b.square_list[lo])]).piece,
                   square |-> <<lo % BoardSize, lo \div BoardSize>>] >>
          ELSE <<>>)
    ELSE StandingBetween(b, lo, (lo + hi) \div 2)
         \o StandingBetween(b, (lo + hi) \div 2 + 1, hi)

\* A board built from scratch with add_pieces that has the pieces of b on
\* the squares of b, and b's side, en-passant target and castle rights.
Rebuilt(b) ==
    [add_pieces(create_empty, StandingBetween(b, 0, SquareCount - 1))
     EXCEPT !.side = b.side, !.en_passant = b.en_passant,
            !.castle_rights = b.castle_rights]

SameFields(a, b) ==
    a.side = b.side /\ a.en_passant = b.en_passant /\ a.castle_rights = b.castle_rights

\* The boards the current board is compared with: itself built from
\* scratch, the starting board, and the board before the last move.
ComparedBoards ==
    {Rebuilt(board), StartBoards[start]}
    \cup (IF IsSome(last.mu) THEN {LastBefore, Rebuilt(LastBefore)} ELSE {})

\* C27: semantic_eq(a, b) is true exactly when a and b have the same side,
\* en-passant target and castle rights and the same pieces on the same
\* squares, whichever slots the pieces occupy; it is reflexive and symmetric.
C27_SemanticEq ==
    status = "ok" =>
        /\ semantic_eq(board, board)
        /\ \A b \in ComparedBoards :
             /\ semantic_eq(board, b) <=> (SameFields(board, b) /\ SamePieceAt(board, b))
             /\ semantic_eq(board, b) <=> semantic_eq(b, board)

\* The moves the claim and the test pawn_moves expect of a pawn on its home
\* square: the push, and the double push to the given rank.
LonePawnMoves(b, double_rank) ==
    << from_to(b, Pawn, at(0, 1), at(0, 2)),
       from_to_en_passant(b, at(0, 1), at(0, double_rank), at(0, 2)) >>

\* C28 as stated: on the board holding only a White pawn at file 0 rank 1
\* with White to move, generate_moves yields exactly the single push to rank 2
\* and a double push to rank 4 whose en_passant_after is the rank-2 square,
\* and static_evaluation is 1.
C28_DoublePushToRankFour ==
    board = lone_pawn_board =>
        /\ generate_moves(board) = [moves |-> LonePawnMoves(board, 4), ok |-> TRUE]
        /\ static_evaluation(board) = 1

\* C28 amended: on the board holding only a White pawn at file 0 rank 1 with
\* White to move, generate_moves yields exactly the single push to rank 2 and
\* the double push to rank 3 whose en_passant_after is the rank-2 square, and
\* static_evaluation is 1.
C28_DoublePushToRankThree ==
    board = lone_pawn_board =>
        /\ generate_moves(board) = [moves |-> LonePawnMoves(board, 3), ok |-> TRUE]
        /\ static_evaluation(board) = 1

\* The double push generated on the lone-pawn board has been applied.
C28_LonePawnDoublePushed ==
    /\ status = "ok" /\ Applied /\ IsSome(last.mu)
    /\ LastBefore = lone_pawn_board
    /\ LastMove = LonePawnMoves(lone_pawn_board, 3)[2]
    /\ board.en_passant = Some(at(0, 2))
    /\ piece_at(board, at(0, 3)) = Some(colored(Pawn, White))

\* The squares on which a pawn of the side to move stands.
PawnSquares(b) == {s \in Squares : piece_at(b, s) = Some(colored(Pawn, b.side))}

\* The generated pawn moves from square s to square t.
PawnMovesFromTo(b, s, t) ==
    {m \in Range(generate_moves(b).moves) : m.piece_kind = Pawn /\ m.from = s /\ m.to = t}

CanPush(b, s) ==
    LET one == delta(s, 0, forward(b.side)) IN is_on_board(one) /\ ~has_piece_at(b, one)

CanDoublePush(b, s) ==
    LET two == delta(s, 0, forward(b.side) * 2)
    IN CanPush(b, s) /\ rank(s) = home_rank(b.side) /\ is_on_board(two) /\ ~has_piece_at(b, two)

\* C29: for every pawn of the side to move, a single push one rank forward
\* is generated iff that square is on the board and empty; a double push is
\* generated iff additionally the pawn is on its home rank and the
\* destination is empty, and its en_passant_after is the intermediate square;
\* a diagonal-forward move is generated only as a capture, of the opposing
\* piece standing on the destination or onto the en-passant target.
C29_PawnMoves ==
    (status = "ok" /\ generate_moves(board).ok) =>
        \A s \in PawnSquares(board) :
            LET fwd == forward(board.side)
                one == delta(s, 0, fwd)
                two == delta(s, 0, fwd * 2)
            IN /\ (PawnMovesFromTo(board, s, one) /= {}) <=> CanPush(board, s)
               /\ \A m \in PawnMovesFromTo(board, s, one) : IsNone(m.capture)
               /\ (PawnMovesFromTo(board, s, two) /= {}) <=> CanDoublePush(board, s)
               /\ \A m \in PawnMovesFromTo(board, s, two) :
                     IsNone(m.capture) /\ m.en_passant_after = Some(one)
               /\ \A d \in {-1, 1} :
                     \A m \in PawnMovesFromTo(board, s, delta(s, d, fwd)) :
                        /\ IsSome(m.capture)
                        /\ \/ /\ IsSome(piece_at(board, m.to))
                              /\ Unwrap(piece_at(board, m.to)).color /= board.side
                              /\ Unwrap(m.capture) =
                                    [piece |-> Unwrap(piece_at(board, m.to)), square |-> m.to]
                           \/ board.en_passant = Some(m.to)

\* The en-passant captures generated from square s onto square t, in the
\* order generate_moves returns them.
EnPassantCaptures(b, s, t) ==
    SelectSeq(generate_moves(b).moves,
              LAMBDA m : m.piece_kind = Pawn /\ m.from = s /\ m.to = t /\ IsSome(m.capture))

\* C30: when board.en_passant is a square diagonally forward of a pawn of
\* the side to move, generate_moves returns without fault and emits one
\* capturing move from the pawn's square onto the en-passant target whose
\* captured piece is the opposing pawn on the target's file and the mover's
\* rank; and after a double push applied in play generate_moves never faults.
C30_EnPassantCapture ==
    status = "ok" =>
        /\ \A s \in PawnSquares(board) : \A d \in {-1, 1} :
              LET target == delta(s, d, forward(board.side))
                  victim == delta(s, d, 0)
              IN board.en_passant = Some(target) =>
                   /\ generate_moves(board).ok
                   /\ Len(EnPassantCaptures(board, s, target)) = 1
                   /\ EnPassantCaptures(board, s, target)[1].capture =
                         Some([piece |-> colored(Pawn, IF board.side = White THEN Black ELSE White),
                               square |-> victim])
        /\ (Applied /\ IsSome(last.mu) /\ IsSome(board.en_passant)) => generate_moves(board).ok

\* The directions of a Rook, Bishop or Queen in the order they are walked.
SliderDirections(kind) ==
    CASE kind = Rook -> STRAIGHT_DIRECTIONS
      [] kind = Bishop -> DIAGONAL_DIRECTIONS
      [] kind = Queen -> STRAIGHT_DIRECTIONS \o DIAGONAL_DIRECTIONS

Free(b, s) == is_on_board(s) /\ IsNone(piece_at(b, s))

\* The number of empty squares from s in direction d before the first
\* occupied square or the edge.
Reach(b, s, d) ==
    CHOOSE n \in 0..(BoardSize - 1) :
        /\ \A k \in 1..n : Free(b, Steps(s, d, k))
        /\ ~Free(b, Steps(s, d, n + 1))

\* The moves the claim expects along one direction: a non-capturing move to
\* every empty square, then a capture of an opposing piece on the first
\* occupied square.
ExpectedRay(b, piece, s, d) ==
    Let(Reach(b, s, d), LAMBDA n :
        [k \in 1..n |-> from_to(b, piece.kind, s, Steps(s, d, k))]
        \o (IF is_on_board(Steps(s, d, n + 1))
               /\ Unwrap(piece_at(b, Steps(s, d, n + 1))).color /= piece.color
            THEN <<from_to_capture(b, piece.kind, s, Steps(s, d, n + 1),
                       [piece |-> Unwrap(piece_at(b, Steps(s, d, n + 1))),
                        square |-> Steps(s, d, n + 1)])>>
            ELSE <<>>))

RECURSIVE ExpectedRays(_, _, _, _, _)
ExpectedRays(b, piece, s, directions, i) ==
    IF i > Len(directions) THEN <<>>
    ELSE ExpectedRay(b, piece, s, directions[i]) \o ExpectedRays(b, piece, s, directions, i + 1)

\* The squares on which a piece of the side to move of one of the kinds stands.
StandingOf(b, kinds) ==
    {s \in Squares : IsSome(piece_at(b, s)) /\ Unwrap(piece_at(b, s)).color = b.side
                     /\ Unwrap(piece_at(b, s)).kind \in kinds}

\* C31: for every Rook, Bishop or Queen of the side to move, the moves
\* generate_moves returns from its square are, direction by direction in the
\* order of the kind's directions, a non-capturing move to every empty square
\* up to the first occupied square or the edge, then a capture onto that
\* square iff it holds an opposing piece, and nothing beyond it.
C31_SliderMoves ==
    status = "ok" =>
        Let(generate_moves(board), LAMBDA generated :
            generated.ok =>
                \A s \in StandingOf(board, {Rook, Bishop, Queen}) :
                    SelectSeq(generated.moves, LAMBDA m : m.from = s /\ IsNone(m.castle))
                      = ExpectedRays(board, Unwrap(piece_at(board, s)), s,
                                     SliderDirections(Unwrap(piece_at(board, s)).kind), 1))

\* The offsets of a Knight or King in the order they are probed.
LeaperDirections(kind) == IF kind = Knight THEN KNIGHT_DIRECTIONS ELSE KING_DIRECTIONS

\* The move the claim expects for one offset: a non-capturing move onto an
\* empty square of the board, a capture of an opposing piece, nothing
\* otherwise.
ExpectedProbe(b, piece, s, d) ==
    Let(Steps(s, d, 1), LAMBDA t :
        IF ~is_on_board(t) THEN <<>>
        ELSE IF IsNone(piece_at(b, t)) THEN <<from_to(b, piece.kind, s, t)>>
        ELSE IF Unwrap(piece_at(b, t)).color /= piece.color
             THEN <<from_to_capture(b, piece.kind, s, t,
                        [piece |-> Unwrap(piece_at(b, t)), square |-> t])>>
             ELSE <<>>)

RECURSIVE ExpectedProbes(_, _, _, _, _)
ExpectedProbes(b, piece, s, directions, i) ==
    IF i > Len(directions) THEN <<>>
    ELSE ExpectedProbe(b, piece, s, directions[i])
         \o ExpectedProbes(b, piece, s, directions, i + 1)

\* C32: for every Knight or King of the side to move, the moves other than
\* castles that generate_moves returns from its square are, offset by offset in
\* the order of the kind's eight offsets, a non-capturing move if the target
\* is on the board and empty, a capture if it holds an opposing piece, and
\* nothing if it is off the board or holds an own piece; a Dummy generates no
\* move.
C32_LeaperMoves ==
    status = "ok" =>
        Let(generate_moves(board), LAMBDA generated :
            generated.ok =>
                /\ \A s \in StandingOf(board, {Knight, King}) :
                     SelectSeq(generated.moves, LAMBDA m : m.from = s /\ IsNone(m.castle))
                       = ExpectedProbes(board, Unwrap(piece_at(board, s)), s,
                                        LeaperDirections(Unwrap(piece_at(board, s)).kind), 1)
                /\ \A m \in Range(generated.moves) : m.piece_kind /= Dummy)

\* An opposing knight or pawn stands on a square of the board that is a
\* knight's offset, or a pawn probe's offset, away from square s.
EdgeProbeHits(s, color) ==
    \/ \E d \in Directions(KNIGHT_DIRECTIONS) : \E t \in Squares :
         t = delta(s, d[1], d[2]) /\ piece_at(board, t) = Some(colored(Knight, switch(color)))
    \/ \E x_delta \in {-1, 1} : \E t \in Squares :
         t = delta(s, x_delta, forward(color))
         /\ piece_at(board, t) = Some(colored(Pawn, switch(color)))

Mismatched(b, m) ==
    \/ IsSome(m.capture) /\ piece_at(b, Unwrap(m.capture).square) /= Some(Unwrap(m.capture).piece)
    \/ IsNone(piece_at(b, m.from))
    \/ IsSome(piece_at(b, m.from)) /\ Unwrap(piece_at(b, m.from)).kind /= m.piece_kind

\* C34: apply_move(M) whose capture record does not match the piece on the
\* capture square, or whose from holds no piece or a piece of another kind
\* than M.piece_kind, fails an assertion or unwrap; it never completes.
C34_MismatchedMoveAborts ==
    (AppliedTampered /\ Mismatched(LastBefore, LastMove)) => status = "panicked"

\* The corner on which the rook of a castle stands.
CastleRookSquare(b, castle) == at(IF castle = KingSide THEN 7 ELSE 0, back_rank(b.side))

\* C35: on every board reached from create_populated by applying generated
\* moves, apply_move of every move of generate_moves completes: a piece of
\* M.piece_kind stands on M.from, M.en_passant_before is board.en_passant, a
\* non-capturing target is empty, a recorded capture is on the board, the rook
\* of a castle is on its corner, and a slot is free for a promotion.
C35_GeneratedMovesApply ==
    (status = "ok" /\ start \in PopulatedStarts) =>
        Let(generate_moves(board), LAMBDA generated :
            /\ generated.ok
            /\ \A m \in Range(generated.moves) :
                 /\ piece_at(board, m.from) = Some(colored(m.piece_kind, board.side))
                 /\ m.en_passant_before = board.en_passant
                 /\ IsNone(m.capture) => ~has_piece_at(board, m.to)
                 /\ IsSome(m.capture) =>
                      piece_at(board, Unwrap(m.capture).square) = Some(Unwrap(m.capture).piece)
                 /\ IsSome(m.castle) =>
                      piece_at(board, CastleRookSquare(board, Unwrap(m.castle)))
                        = Some(colored(Rook, board.side))
                 /\ IsSome(m.promotion) => board.piece_free_list /= <<>>
                 /\ apply_move(board, m).ok)

\* Every castle right a board holds is backed by the color's King on file 4
\* and a Rook of the color on the right's corner of its back rank.
RightsBacked(b) ==
    \A color \in Colors : \A sd \in CastleSides :
        test_right(get_rights(b.castle_rights, color), sd) =>
            /\ piece_at(b, at(4, back_rank(color))) = Some(colored(King, color))
            /\ piece_at(b, at(IF sd = KingSide THEN 7 ELSE 0, back_rank(color)))
                 = Some(colored(Rook, color))

\* C36: on every board reached from create_populated by apply_move of
\* generated moves and matching reverts, a color that holds a castle right
\* has its King on file 4 and a Rook on that side's corner of its back rank,
\* and apply_move of every generated castle move finds its king and rook.
C36_RightsBackedByKingAndRook ==
    (status = "ok" /\ start \in PopulatedStarts) =>
        /\ RightsBacked(board)
        /\ \A m \in Range(generate_moves(board).moves) :
             IsSome(m.castle) => apply_move(board, m).ok

\* The slots of the piece list that hold a piece.
OccupiedSlots(b) == {i \in 0..(PieceSlots - 1) : IsSome(b.piece_list[i])}

\* The squares at which piece_at reports the King of a color.
KingSeenAt(b, color) == {s \in Squares : piece_at(b, s) = Some(colored(King, color))}

\* The slot store of a board is consistent: a square maps to a slot exactly
\* when that slot holds a piece recorded on the square, every occupied slot
\* is referenced by exactly one square, the free list holds exactly the empty
\* slots without duplicates, and king_square answers the square at which
\* piece_at reports the King.
SlotStoreConsistent(b) ==
    /\ \A s \in Squares : \A i \in 0..(PieceSlots - 1) :
         (b.square_list[index(s)] = Some(i)) <=>
             (i \in OccupiedSlots(b) /\ Unwrap(b.piece_list[i]).square = s)
    /\ \A i \in OccupiedSlots(b) :
         Cardinality({s \in Squares : b.square_list[index(s)] = Some(i)}) = 1
    /\ Range(b.piece_free_list) = (0..(PieceSlots - 1)) \ OccupiedSlots(b)
    /\ Cardinality(OccupiedSlots(b)) + Len(b.piece_free_list) = PieceSlots
    /\ \A color \in Colors :
         /\ IsSome(king_square(b, color)) <=> KingSeenAt(b, color) /= {}
         /\ IsSome(king_square(b, color)) =>
              KingSeenAt(b, color) = {Unwrap(king_square(b, color))}

\* C37: after every sequence of add_piece, remove_piece, apply_move and
\* revert_move that completes, the slot store of the board is consistent.
C37_SlotStoreConsistent == status = "ok" => SlotStoreConsistent(board)

\* C38: for the current board B and every move M of generate_moves(B),
\* apply_move(M) followed by revert_move(M) completes and generate_moves
\* returns on the resulting board the same ordered list as on B.
C38_GenerationSurvivesRoundTrip ==
    (status = "ok" /\ generate_moves(board).ok) =>
        Let(generate_moves(board), LAMBDA generated :
            \A m \in Range(generated.moves) :
                Let(apply_move(board, m), LAMBDA a :
                    /\ a.ok
                    /\ Let(revert_move(a.board, m), LAMBDA r :
                           r.ok /\ generate_moves(r.board) = generated)))

\* The search a loop runs under a move it has applied: best_move asks its
\* evaluator, the loop of minimax calls minimax one level down with the sign
\* flipped.
SearchUnder(caller, b, max_depth, neg) ==
    IF caller = "minimax" THEN minimax(b, 1, max_depth, neg * (-1))
    ELSE evaluate(caller, b, max_depth)

\* One iteration of either loop without its choice: apply, search, revert,
\* and note the evaluation (negated for Black) and the line under the move.
seen_step(s, m, caller, max_depth, neg) ==
    Let(apply_move(s.board, m), LAMBDA a :
      IF ~a.ok THEN [s EXCEPT !.ok = FALSE]
      ELSE
        Let(SearchUnder(caller, a.board, max_depth, neg), LAMBDA e :
          IF ~e.ok THEN [s EXCEPT !.ok = FALSE]
          ELSE
            Let(revert_move(e.board, m), LAMBDA r :
              IF ~r.ok THEN [s EXCEPT !.ok = FALSE]
              ELSE [s EXCEPT !.board = r.board,
                             !.seen = Append(@, [value |-> e.value * neg,
                                                 line |-> e.line])])))

\* The iterations for moves[lo..hi] in order (the range is halved to keep the
\* evaluation shallow).
RECURSIVE seen_between(_, _, _, _, _, _, _)
seen_between(s, moves, lo, hi, caller, max_depth, neg) ==
    IF ~s.ok THEN s
    ELSE IF lo = hi THEN seen_step(s, moves[lo], caller, max_depth, neg)
    ELSE seen_between(
             seen_between(s, moves, lo, (lo + hi) \div 2, caller, max_depth, neg),
             moves, (lo + hi) \div 2 + 1, hi, caller, max_depth, neg)

\* The evaluation and line the loop over generate_moves(b) sees under each
\* move, in generate_moves order, on the one board the iterations share.
LoopSeen(b, caller, max_depth) ==
    Let(generate_moves(b).moves, LAMBDA moves :
        seen_between([board |-> b, ok |-> TRUE, seen |-> <<>>], moves, 1, Len(moves),
                     caller, max_depth, IF b.side = White THEN 1 ELSE -1))

\* The place of the first of the greatest evaluations.
FirstBest(seen) ==
    CHOOSE k \in 1..Len(seen) :
        \A j \in 1..Len(seen) :
            seen[k].value > seen[j].value \/ (seen[k].value = seen[j].value /\ k <= j)

\* C39: best_move returns the first move in generate_moves order among the
\* moves whose evaluation is best for the side to move, and the line of
\* MinimaxEvaluator is the first of the best moves at the root followed by
\* the line of the search under that move.
C39_FirstOfTheBest ==
    /\ (status = "ok" /\ IsSome(chosen) /\ IsSome(Unwrap(chosen).move)) =>
         Let(Unwrap(chosen), LAMBDA c :
         Let(LoopSeen(c.board_before, c.evaluator, c.max_depth), LAMBDA s :
             /\ s.ok
             /\ c.move = Some(generate_moves(c.board_before).moves[FirstBest(s.seen)])))
    /\ (status = "ok" /\ IsSome(result) /\ Unwrap(result).evaluator = "Minimax"
          /\ Unwrap(result).max_depth > 0
          /\ generate_moves(Unwrap(result).board_before).moves /= <<>>) =>
         Let(Unwrap(result), LAMBDA o :
         Let(LoopSeen(o.board_before, "minimax", o.max_depth), LAMBDA s :
             /\ s.ok
             /\ o.line = <<generate_moves(o.board_before).moves[FirstBest(s.seen)]>>
                           \o s.seen[FirstBest(s.seen)].line))

\* best_move has returned a move while a move generated after it has the
\* same evaluation.
C39_TieAmongTheBest ==
    /\ status = "ok" /\ IsSome(chosen) /\ IsSome(Unwrap(chosen).move)
    /\ Let(Unwrap(chosen), LAMBDA c :
       Let(LoopSeen(c.board_before, c.evaluator, c.max_depth).seen, LAMBDA seen :
           \E j \in 1..Len(seen) : /\ j > FirstBest(seen)
                                   /\ seen[j].value = seen[FirstBest(seen)].value))

\* C40: when evaluate of a freshly created AlphaBetaEvaluator has returned,
\* its node_count is at least 1, and evaluate of a freshly created
\* MinimaxEvaluator on the same board with the same max_depth returns with a
\* node_count that is not smaller.
C40_AlphaBetaVisitsNoMore ==
    (IsSome(result) /\ Unwrap(result).evaluator = "AlphaBeta" /\ Unwrap(result).ok) =>
        Let(Unwrap(result), LAMBDA o :
        Let(MinimaxEvaluator_evaluate(o.board_before, o.max_depth), LAMBDA m :
            /\ o.nodes >= 1
            /\ m.ok
            /\ o.nodes <= m.nodes))

====
